---- MODULE Spec2Model ----
(***************************************************************************)
(* Model of the render scheduling and draw-queueing core of rust-sqgui     *)
(* (src/src/render.rs): the RenderSchedule builder, and the Renderer's     *)
(* queue() / execute() frame cycle.                                        *)
(*                                                                         *)
(* f32 values (depth_counter, queue_depth, z_order, position.z) are        *)
(* modelled as integers: the counter only takes the values 0, 1, 2, ...    *)
(* which f32 represents exactly far beyond the bounds used here, and the   *)
(* depth values are expressed in halves (1 is 0.5, 2 is 1.0).              *)
(***************************************************************************)
EXTENDS Integers, Sequences, FiniteSets, TLC

(***************************************************************************)
(* Bounds of the model.                                                    *)
(***************************************************************************)
MaxSteps == 2        \* steps a schedule under construction may hold
MaxBuilds == 1       \* calls of RenderSchedule::builder()
MaxQueueCalls == 3   \* calls of Renderer::queue() since construction
MaxExecutes == 2     \* calls of Renderer::execute() since construction
MaxShaders == 1      \* render pipelines inserted into the shader table
MaxMaterials == 1    \* calls of AssetManager::create_material() in the frame cycle
MaxAssetCalls == 3   \* calls that create textures (dynamic targets, texture loads)
MaxStaleMaterials == 2   \* calls of create_material() where materials are removed
MaxStaleQueueCalls == 2  \* calls of queue() where materials are removed
MaxPairingQueueCalls == 2  \* calls of queue() with every pairing of the variants
MaxThreadCalls == 1        \* calls of create_dynamic_render_target on each thread
MaxWindowQueueCalls == 1   \* calls of queue() on each of two windows' renderers
MaxFrames == 2             \* iterations of SQ::run()'s loop
MaxPolled == 2             \* events one event_pump.poll_iter() yields
MaxButtonEvents == 4       \* button events an InputManager receives
MaxMotionEvents == 12      \* MouseMotion events an InputManager receives
MaxResets == 1             \* calls of InputManager::reset_states()

(***************************************************************************)
(* Input domains.                                                          *)
(***************************************************************************)
PassNames == {"main", "ui"}
TargetNames == {"screen", "fog"}
ShaderKeyAt(n) == <<"shader", n>>
ShaderKeys == {ShaderKeyAt(n) : n \in 1..MaxShaders}

\* slotmap keys: the n-th key a SlotMap hands out (a key is never handed out twice)
MaterialKeyAt(n) == <<"material", n>>
TextureKeyAt(n) == <<"texture", n>>
MaterialKeys == {MaterialKeyAt(n) : n \in 1..MaxMaterials}
TextureKeys == {TextureKeyAt(1)}

\* enum RenderTargetKey { Screen, Texture(TextureKey) }
Screen == <<"Screen">>
Texture(k) == <<"Texture", k>>
RenderTargetKeys == {Screen} \cup {Texture(k) : k \in TextureKeys}

\* enum Mapping { Sprite{..}, Mesh{..} }: only the variant is kept
Mappings == {"Sprite", "Mesh"}

\* enum Transform: Sprite carries z_order, Mesh carries position (x, y, z)
SpriteTransform(z) == [variant |-> "Sprite", z_order |-> z, position_z |-> 0]
MeshTransform(z) == [variant |-> "Mesh", z_order |-> 0, position_z |-> z]

\* Transform::depth
depth(t) == IF t.variant = "Sprite" THEN t.z_order ELSE t.position_z

\* enum ScheduleStep
PassStep(p, t) == [kind |-> "Pass", render_pass |-> p, subject |-> "", shader |-> "", target |-> t]
ProcessStep(s, sh, t) == [kind |-> "Process", render_pass |-> "", subject |-> s, shader |-> sh, target |-> t]

\* the value of a schedule that has been moved out or dropped
NoSchedule == [steps |-> <<>>, pass_names |-> <<>>, render_targets |-> <<>>, live |-> FALSE]

\* HashMap::new
EmptyMap == <<>>

\* the arguments Renderer::queue() receives: (mapping, transform, allow_transparency)
QueueInputs ==
    { <<"Sprite", SpriteTransform(0), FALSE>>,
      <<"Sprite", SpriteTransform(2), TRUE>>,
      <<"Sprite", SpriteTransform(1), TRUE>> }

\* an opaque and a transparent submission
WindowInputs ==
    { <<"Sprite", SpriteTransform(0), FALSE>>,
      <<"Sprite", SpriteTransform(1), TRUE>> }

\* every pairing of a Mapping variant with a Transform variant
AllQueueInputs == Mappings \X {SpriteTransform(0), MeshTransform(1)} \X BOOLEAN

\* the arguments with_render_target() receives: (name, target key)
TargetInputs == {<<"fog", Texture(TextureKeyAt(1))>>}
AllTargetInputs == TargetNames \X RenderTargetKeys

\* the names add_pass() and add_process() receive
ProcessSubjects == {"fog"}
ProcessTargets == {"screen"}
\* the arguments of create_dynamic_render_target and load_texture, and what
\* the file system and the decoder answer to load_texture
DynamicTargetNames == {"fog", "bloom"}
TargetSizes == {<<64, 64>>, <<128, 128>>}
TexturePaths == {"a.png"}
LoadOutcomes == {"ok", "read_error", "decode_error"}

\* the one target of a schedule built without with_render_target
ScreenOnly == {"screen"}

AllTargetNames == TargetNames \cup {"undefined_target"}

\* Button values
Key(keycode) == <<"Key", keycode>>
Mouse(mouse_btn) == <<"Mouse", mouse_btn>>
Pen(button) == <<"Pen", button>>
MouseLeft == Mouse("Left")

\* an sdl3 Event: its variant, the id of its window (0 for a variant
\* without a window), and the fields the program reads, in order
Event(type, window_id, arg) == [type |-> type, window_id |-> window_id, arg |-> arg]

\* the windows SDL may create, by id
WindowIds == {1, 2}

\* what SQWindow::render returns: Ok or a wgpu SurfaceError
SurfaceOutcomes == {"Ok", "Timeout", "Outdated", "Lost", "OutOfMemory"}

\* what window.window.size() may return (0 by 0 for a minimized window)
WindowSizes == {<<0, 0>>, <<400, 300>>}

\* polled events: a Quit, a resize of window 1, a key for window 1 and a key
\* for a window that does not exist
LoopEvents ==
    {Event("Quit", 0, <<>>),
     Event("Window", 1, <<"Resized", 400, 300>>),
     Event("KeyDown", 1, <<"A">>),
     Event("KeyDown", 3, <<"A">>)}

\* button events: a key, the left and the right mouse button, the pen and a
\* pen button, and a key event without keycode
ButtonEvents ==
    {Event("KeyDown", 1, <<"A">>), Event("KeyUp", 1, <<"A">>),
     Event("MouseButtonDown", 1, <<"Left">>), Event("MouseButtonUp", 1, <<"Left">>),
     Event("MouseButtonDown", 1, <<"Right">>), Event("MouseButtonUp", 1, <<"Right">>),
     Event("PenDown", 1, <<>>), Event("PenUp", 1, <<>>),
     Event("PenButtonDown", 1, <<1>>), Event("PenButtonUp", 1, <<1>>),
     Event("KeyDown", 1, <<>>)}

\* the buttons of ButtonEvents
Buttons == {Key("A"), MouseLeft, Mouse("Right"), Pen(1)}

\* mouse positions
MousePositions == {<<1, 1>>, <<2, 5>>}

\* MouseMotion events
MotionEvents == {Event("MouseMotion", 1, pos) : pos \in MousePositions}

VARIABLES
    status,         \* "running", or the message of the panic that terminated the program
    builder,        \* the RenderSchedule value under construction (NoSchedule if none)
    schedule,       \* Renderer.schedule
    queues,         \* Renderer.queues: pass name -> <<opaque list, transparent list>>
    depth_counter,  \* Renderer.depth_counter
    shaders,        \* AssetManager.shaders: SlotMap of RenderPipeline
    draws,          \* history: the draw commands issued by the latest execute()
    frame_calls,    \* history: the queue() calls made since the latest execute()
    executed,       \* history: what the latest execute() began with, and whether it returned
    counts,         \* history: numbers of builder(), queue() and execute() calls
    builder_call,   \* history: the latest schedule-construction call and its arguments
    materials,      \* AssetManager.materials: SlotMap of Material
    textures,       \* AssetManager.textures: SlotMap of SQTexture
    dynamic_render_targets, \* AssetManager.dynamic_render_targets: name -> RenderTargetKey
    texture_assets, \* AssetManager.texture_assets: path -> TextureKey
    asset_calls,    \* history: the calls that create textures, with their results
    second,         \* the Renderer of a second window, on the same AssetManager
    callers,        \* the create_dynamic_render_target calls in progress on two threads
    sq,             \* the SQ application: running, and its windows with their InputManager
    frame,          \* SQ::run()'s position in the frame loop, and history of its calls
    input_events    \* history: window id -> the calls its InputManager has received

rendererVars == <<status, builder, schedule, queues, depth_counter, shaders, draws,
                  frame_calls, executed, counts, builder_call>>

assetVars == <<textures, dynamic_render_targets, texture_assets, asset_calls>>

windowVars == <<second, callers>>

appVars == <<sq, frame, input_events>>

vars == <<rendererVars, materials, assetVars, windowVars, appVars>>

Range(s) == {s[i] : i \in 1..Len(s)}

\* a schedule-construction call: the target names it was given (and, for
\* with_render_target, the key), and for each name whether the schedule's
\* render_targets held it when the call was made
Call(op, args, registered) == [op |-> op, args |-> args, registered |-> registered]

\* what an execute() call began with
Executed(calls, sched, returned) == [calls |-> calls, schedule |-> sched, returned |-> returned]

\* Option
None == <<"None">>
Some(v) == <<"Some", v>>

\* SlotMap: the values under their keys, and the number of keys handed out
EmptySlotMap == [items |-> <<>>, created |-> 0]

\* the panic messages of render.rs, and the panics of its indexing expressions
Running == "running"
PanicTarget == "Render target not found"
PanicProcessSubject == "Subject render target not found"
PanicProcessTarget == "Target render target not found"
PanicIndexTarget == "render_targets[subject]: key not found"
PanicIndexShader == "shaders[shader]: invalid SlotMap key"
NoPanic == ""

----------------------------------------------------------------------------
(***************************************************************************)
(* RenderSchedule                                                          *)
(***************************************************************************)

\* HashMap::insert on a map kept as a function
MapInsert(m, k, v) == [x \in (DOMAIN m) \cup {k} |-> IF x = k THEN v ELSE m[x]]

\* HashMap::remove
MapRemove(m, k) == [x \in (DOMAIN m) \ {k} |-> m[x]]

\* SlotMap::insert with the key it returns, keyAt(n) being the n-th key
SlotInsert(slots, key, value) ==
    [items |-> MapInsert(slots.items, key, value), created |-> slots.created + 1]

\* SlotMap::remove
SlotRemove(slots, key) == [slots EXCEPT !.items = MapRemove(slots.items, key)]

\* AssetManager::get_material
get_material(key) ==
    IF key \in DOMAIN materials.items THEN Some(materials.items[key]) ELSE None

\* RenderSchedule::new without the insertion of the "screen" entry
RenderScheduleNew_NoScreen(render_targets) ==
    [steps |-> <<>>,
     pass_names |-> <<>>,
     render_targets |-> render_targets,
     live |-> TRUE]

\* RenderSchedule::new
RenderScheduleNew(render_targets) ==
    [steps |-> <<>>,
     pass_names |-> <<>>,
     render_targets |-> MapInsert(render_targets, "screen", Screen),
     live |-> TRUE]

\* with_render_target keeping the key a name already has
with_render_target_KeepExisting(self, name, target) ==
    IF name \in DOMAIN self.render_targets THEN self
    ELSE [self EXCEPT !.render_targets = MapInsert(self.render_targets, name, target)]

\* RenderSchedule::with_render_target
with_render_target(self, name, target) ==
    [self EXCEPT !.render_targets = MapInsert(self.render_targets, name, target)]

\* the names add_step looks up in render_targets, in the order it checks them
StepTargets(step) ==
    IF step.kind = "Pass" THEN <<step.target>> ELSE <<step.subject, step.target>>

\* add_step without the target check of its Pass arm
add_step_panic_PassUnchecked(self, step) ==
    IF step.kind = "Pass" THEN NoPanic
    ELSE IF step.subject \notin DOMAIN self.render_targets THEN PanicProcessSubject
         ELSE IF step.target \notin DOMAIN self.render_targets THEN PanicProcessTarget
         ELSE NoPanic

\* add_step without the subject check of its Process arm
add_step_panic_SubjectUnchecked(self, step) ==
    IF step.target \notin DOMAIN self.render_targets
    THEN (IF step.kind = "Pass" THEN PanicTarget ELSE PanicProcessTarget)
    ELSE NoPanic

\* add_step whose Process arm looks the subject up twice and the target never
add_step_panic_TargetUnchecked(self, step) ==
    IF step.kind = "Pass"
    THEN IF step.target \notin DOMAIN self.render_targets THEN PanicTarget ELSE NoPanic
    ELSE IF step.subject \notin DOMAIN self.render_targets THEN PanicProcessSubject
         ELSE NoPanic

\* RenderSchedule::add_step: the message of the panic! it reaches, if any
add_step_panic(self, step) ==
    IF step.kind = "Pass"
    THEN IF step.target \notin DOMAIN self.render_targets THEN PanicTarget ELSE NoPanic
    ELSE IF step.subject \notin DOMAIN self.render_targets THEN PanicProcessSubject
         ELSE IF step.target \notin DOMAIN self.render_targets THEN PanicProcessTarget
         ELSE NoPanic

\* add_step pushing the pass name without looking for it in pass_names
add_step_NoContains(self, step) ==
    LET names == IF step.kind = "Pass"
                 THEN Append(self.pass_names, step.render_pass)
                 ELSE self.pass_names
    IN [self EXCEPT !.pass_names = names, !.steps = Append(self.steps, step)]

\* add_step putting the new step in front of the list
add_step_Prepend(self, step) ==
    LET names == IF step.kind = "Pass" /\ step.render_pass \notin Range(self.pass_names)
                 THEN Append(self.pass_names, step.render_pass)
                 ELSE self.pass_names
    IN [self EXCEPT !.pass_names = names, !.steps = <<step>> \o self.steps]

\* RenderSchedule::add_step: the schedule it returns when it does not panic
add_step(self, step) ==
    LET names == IF step.kind = "Pass" /\ step.render_pass \notin Range(self.pass_names)
                 THEN Append(self.pass_names, step.render_pass)
                 ELSE self.pass_names
    IN [self EXCEPT !.pass_names = names, !.steps = Append(self.steps, step)]

----------------------------------------------------------------------------
(***************************************************************************)
(* Renderer                                                                *)
(***************************************************************************)

\* queue() taking queue_depth from the transform's depth instead of the counter
NewRenderQueue_DepthFromTransform(material, mapping, transform, allow_transparency, counter, call_no) ==
    [material |-> material,
     mapping |-> mapping,
     transform |-> transform,
     allow_transparency |-> allow_transparency,
     queue_depth |-> depth(transform),
     call_no |-> call_no]

\* the RenderQueue value built by Renderer::queue (uniforms are carried along
\* unread and left out); call_no is a history tag: the number of this queue()
\* call since construction
NewRenderQueue(material, mapping, transform, allow_transparency, counter, call_no) ==
    [material |-> material,
     mapping |-> mapping,
     transform |-> transform,
     allow_transparency |-> allow_transparency,
     queue_depth |-> counter,
     call_no |-> call_no]

\* queue() counting the depth counter down
NextDepth_Decrement(counter) == counter - 1

\* queue() leaving the depth counter where it is
NextDepth_Stuck(counter) == counter

\* depth_counter is an f32: the integers up to 2^24 are exact, and adding 1.0
\* to 2^24 gives 2^24 again
F32ExactIntegers == 16777216

\* the largest i32: ButtonState counts frames in an i32
I32Max == 2147483647

\* the number of positions handle_event keeps in mouse_pos_history
MousePosHistoryLen == 10

\* Renderer::queue: self.depth_counter += 1.0
NextDepth(counter) == IF counter < F32ExactIntegers THEN counter + 1 ELSE counter

\* queue() putting the submission at the front of its list
QueuePush_Front(q, pass_name, item) ==
    LET entry == IF pass_name \in DOMAIN q THEN q[pass_name] ELSE <<<<>>, <<>>>>
        pushed == IF item.allow_transparency
                  THEN <<entry[1], <<item>> \o entry[2]>>
                  ELSE <<<<item>> \o entry[1], entry[2]>>
    IN MapInsert(q, pass_name, pushed)

\* queue() inserting a fresh pair of lists on every call
QueuePush_FreshEntry(q, pass_name, item) ==
    MapInsert(q, pass_name,
              IF item.allow_transparency THEN <<<<>>, <<item>>>> ELSE <<<<item>>, <<>>>>)

\* Renderer::queue: entry(pass_name).or_insert_with(..), then the push
QueuePush(q, pass_name, item) ==
    LET entry == IF pass_name \in DOMAIN q THEN q[pass_name] ELSE <<<<>>, <<>>>>
        pushed == IF item.allow_transparency
                  THEN <<entry[1], Append(entry[2], item)>>
                  ELSE <<Append(entry[1], item), entry[2]>>
    IN MapInsert(q, pass_name, pushed)

\* a draw command issued by one of the drawing helpers: the submissions it
\* draws, in order, into the named target
DrawCommand(kind, target, items) == [kind |-> kind, target |-> target, items |-> items]

\* the list sorted by increasing queue_depth (stable insertion sort)
RECURSIVE SortByQueueDepth(_)
SortByQueueDepth(list) ==
    IF list = <<>> THEN <<>>
    ELSE LET rest == SortByQueueDepth(Tail(list))
             x == Head(list)
             before == SelectSeq(rest, LAMBDA y : y.queue_depth < x.queue_depth)
             after == SelectSeq(rest, LAMBDA y : ~(y.queue_depth < x.queue_depth))
         IN before \o <<x>> \o after

\* the submissions whose material handle the resource table still holds: a
\* submission with a stale handle is skipped by the drawing helpers
Drawable(list) == SelectSeq(list, LAMBDA x : get_material(x.material) # None)

\* Renderer::render_batched: one batch holding the opaque submissions of the
\* pass (the order inside a batch is the implementation's choice); an empty
\* batch draws nothing
render_batched(target, list) ==
    IF Drawable(list) = <<>> THEN <<>>
    ELSE <<DrawCommand("opaque", target, Drawable(list))>>

\* Renderer::render_transparent: one draw per transparent submission, in
\* increasing queue_depth order
render_transparent(target, list) ==
    LET sorted == SortByQueueDepth(Drawable(list))
    IN [i \in 1..Len(sorted) |-> DrawCommand("transparent", target, <<sorted[i]>>)]

\* Renderer::execute_post_process: one full-screen pass
execute_post_process == <<DrawCommand("process", "", <<>>)>>

\* history: the commands tagged with the index and the value of the schedule
\* step that issued them
Tagged(i, step, commands) ==
    [k \in 1..Len(commands) |->
        [kind |-> commands[k].kind, target |-> commands[k].target,
         items |-> commands[k].items, step |-> i, of |-> step]]

\* execute() giving up a pass at the first submission with a stale handle
ExecutePass_StopAtStale(step, entry) ==
    IF \E b \in {1, 2} : Drawable(entry[b]) # entry[b] THEN <<>>
    ELSE render_batched(step.target, entry[1]) \o render_transparent(step.target, entry[2])

\* execute() calling render_transparent before render_batched
ExecutePass_TransparentFirst(step, entry) ==
    render_transparent(step.target, entry[2]) \o render_batched(step.target, entry[1])

\* Renderer::execute, Pass arm: the draw commands of the drained entry
ExecutePass(step, entry) ==
    render_batched(step.target, entry[1]) \o render_transparent(step.target, entry[2])

\* Renderer::execute, Process arm: the panic of its two indexing expressions
\* (HashMap index on a missing name, SlotMap index on a key that is not live)
ProcessPanic(sched, live_shaders, step) ==
    IF step.subject \notin DOMAIN sched.render_targets THEN PanicIndexTarget
    ELSE IF step.shader \notin live_shaders THEN PanicIndexShader
    ELSE NoPanic

\* execute() reading the entry of a Pass step's name without removing it
RECURSIVE ExecuteSteps_KeepsEntry(_, _, _, _, _)
ExecuteSteps_KeepsEntry(sched, live_shaders, i, q, log) ==
    IF i > Len(sched.steps)
    THEN [queues |-> q, draws |-> log, panic |-> NoPanic]
    ELSE LET step == sched.steps[i] IN
         IF step.kind = "Pass"
         THEN IF step.render_pass \in DOMAIN q
              THEN ExecuteSteps_KeepsEntry(sched, live_shaders, i + 1, q,
                                log \o Tagged(i, step, ExecutePass(step, q[step.render_pass])))
              ELSE ExecuteSteps_KeepsEntry(sched, live_shaders, i + 1, q, log)
         ELSE IF ProcessPanic(sched, live_shaders, step) # NoPanic
              THEN [queues |-> q, draws |-> log,
                    panic |-> ProcessPanic(sched, live_shaders, step)]
              ELSE ExecuteSteps_KeepsEntry(sched, live_shaders, i + 1, q,
                                log \o Tagged(i, step, execute_post_process))

\* execute() running a Process step only in a frame that queued something
RECURSIVE ExecuteSteps_ProcessIfQueued(_, _, _, _, _)
ExecuteSteps_ProcessIfQueued(sched, live_shaders, i, q, log) ==
    IF i > Len(sched.steps)
    THEN [queues |-> q, draws |-> log, panic |-> NoPanic]
    ELSE LET step == sched.steps[i] IN
         IF step.kind = "Pass"
         THEN IF step.render_pass \in DOMAIN q
              THEN ExecuteSteps_ProcessIfQueued(sched, live_shaders, i + 1,
                                MapRemove(q, step.render_pass),
                                log \o Tagged(i, step, ExecutePass(step, q[step.render_pass])))
              ELSE ExecuteSteps_ProcessIfQueued(sched, live_shaders, i + 1, q, log)
         ELSE IF ProcessPanic(sched, live_shaders, step) # NoPanic
              THEN [queues |-> q, draws |-> log,
                    panic |-> ProcessPanic(sched, live_shaders, step)]
              ELSE ExecuteSteps_ProcessIfQueued(sched, live_shaders, i + 1, q,
                                IF q = EmptyMap /\ log = <<>> THEN log
                                ELSE log \o Tagged(i, step, execute_post_process))

\* Renderer::execute, the loop over the schedule's steps from step i on:
\* q is self.queues, log the draw commands issued so far
RECURSIVE ExecuteSteps(_, _, _, _, _)
ExecuteSteps(sched, live_shaders, i, q, log) ==
    IF i > Len(sched.steps)
    THEN [queues |-> q, draws |-> log, panic |-> NoPanic]
    ELSE LET step == sched.steps[i] IN
         IF step.kind = "Pass"
         THEN IF step.render_pass \in DOMAIN q
              THEN ExecuteSteps(sched, live_shaders, i + 1,
                                MapRemove(q, step.render_pass),
                                log \o Tagged(i, step, ExecutePass(step, q[step.render_pass])))
              ELSE ExecuteSteps(sched, live_shaders, i + 1, q, log)
         ELSE IF ProcessPanic(sched, live_shaders, step) # NoPanic
              THEN [queues |-> q, draws |-> log,
                    panic |-> ProcessPanic(sched, live_shaders, step)]
              ELSE ExecuteSteps(sched, live_shaders, i + 1, q,
                                log \o Tagged(i, step, execute_post_process))

\* execute() without self.queues.clear()
ClearQueues_Keep(q) == q

\* Renderer::execute, after the loop: self.queues.clear()
ClearQueues(q) == EmptyMap

\* execute() without the reset of the depth counter
ResetDepth_Keep(counter) == counter

\* Renderer::execute, after the loop: self.depth_counter = 0.0
ResetDepth(counter) == 0

----------------------------------------------------------------------------
(***************************************************************************)
(* The state machine                                                       *)
(***************************************************************************)

\* SQTexture::new(device, size) and SQTexture::from_bytes(.., path)
SQTextureNew(size) == <<"SQTexture", "new", size>>
SQTextureFromBytes(path) == <<"SQTexture", "from_bytes", path>>

\* Renderer::create_dynamic_render_target without the lookup by name
create_dynamic_render_target_NoLookup(size, name) ==
    LET texture_key == TextureKeyAt(textures.created + 1)
        render_target_key == Texture(texture_key)
    IN [textures |-> SlotInsert(textures, texture_key, SQTextureNew(size)),
        dynamic_render_targets |->
            MapInsert(dynamic_render_targets, name, render_target_key),
        key |-> render_target_key]

\* Renderer::create_dynamic_render_target: the tables after the call and the
\* key returned
create_dynamic_render_target(size, name) ==
    IF name \in DOMAIN dynamic_render_targets
    THEN [textures |-> textures,
          dynamic_render_targets |-> dynamic_render_targets,
          key |-> dynamic_render_targets[name]]
    ELSE LET texture_key == TextureKeyAt(textures.created + 1)
             render_target_key == Texture(texture_key)
         IN [textures |-> SlotInsert(textures, texture_key, SQTextureNew(size)),
             dynamic_render_targets |->
                 MapInsert(dynamic_render_targets, name, render_target_key),
             key |-> render_target_key]

\* load_texture reading and decoding the file whether or not the path is in
\* texture_assets
load_texture_NoCache(path, outcome) ==
    IF outcome # "ok"
    THEN [textures |-> textures, texture_assets |-> texture_assets,
          result |-> <<"Err", outcome>>]
    ELSE LET texture_key == TextureKeyAt(textures.created + 1)
         IN [textures |-> SlotInsert(textures, texture_key, SQTextureFromBytes(path)),
             texture_assets |-> MapInsert(texture_assets, path, texture_key),
             result |-> <<"Ok", path>>]

\* AssetManager::load_texture: the tables after the call and the result;
\* outcome is what reading and decoding the file give
load_texture(path, outcome) ==
    IF path \in DOMAIN texture_assets
    THEN [textures |-> textures, texture_assets |-> texture_assets,
          result |-> <<"Ok", path>>]
    ELSE IF outcome # "ok"
    THEN [textures |-> textures, texture_assets |-> texture_assets,
          result |-> <<"Err", outcome>>]
    ELSE LET texture_key == TextureKeyAt(textures.created + 1)
         IN [textures |-> SlotInsert(textures, texture_key, SQTextureFromBytes(path)),
             texture_assets |-> MapInsert(texture_assets, path, texture_key),
             result |-> <<"Ok", path>>]

\* an entry of asset_calls: the call, its result and the number of textures
\* it allocated
AssetCall(op, name, size, result, allocated) ==
    [op |-> op, name |-> name, size |-> size, result |-> result,
     allocated |-> allocated]

\* Renderer::new, with the history of the renderer: the calls queued since
\* its latest execute(), the draw commands of that execute(), and the numbers
\* of its queue() and execute() calls
RendererNew ==
    [schedule |-> RenderScheduleNew(EmptyMap),
     queues |-> EmptyMap,
     depth_counter |-> 0,
     frame_calls |-> <<>>,
     draws |-> <<>>,
     queued |-> 0,
     executes |-> 0]

\* the threads that call create_dynamic_render_target, each on a Renderer of
\* its own
Threads == {1, 2}

\* a thread that is not inside a call: pc is the lock acquisition the thread
\* makes next, name and size the arguments of its call, texture_key and result
\* the locals of that name, calls the number of calls it has begun
Idle == [pc |-> "idle", name |-> "", size |-> <<>>, texture_key |-> None,
         result |-> None, calls |-> 0]

\* the entry of asset_calls of a load_texture call, with what reading and
\* decoding the file would give at the time of the call
LoadCall(path, outcome, result, allocated) ==
    [op |-> "load_texture", name |-> path, size |-> <<>>, result |-> result,
     allocated |-> allocated, outcome |-> outcome]

-----------------------------------------------------------------------------
(***************************************************************************)
(* input.rs: the InputManager of a window.  keybinds is left out: nothing  *)
(* under src/ inserts a Keybind, and InputManager::update, its only reader,*)
(* is not called.                                                          *)
(***************************************************************************)

\* the ButtonState variants; frames is an i32
Up(frames) == [state |-> "Up", frames |-> frames]
Down(frames) == [state |-> "Down", frames |-> frames]

\* frames + 1 on an i32, as a build without overflow checks computes it (a
\* build with overflow checks panics at I32Max instead)
NextFrames(frames) == IF frames = I32Max THEN (-I32Max) - 1 ELSE frames + 1

\* PenState::default()
PenStateDefault ==
    [pressure |-> 0, tilt |-> <<0, 0>>, distance |-> 0, rotation |-> 0, slider |-> 0,
     tangential_pressure |-> 0, proximity |-> FALSE, is_down |-> FALSE]

\* InputManager::new
InputManagerNew ==
    [button_states |-> EmptyMap,
     mouse_pos_history |-> <<>>,
     scroll |-> <<0, 0>>,
     pen |-> PenStateDefault,
     physical_left_button_down |-> FALSE]

\* InputManager::reset_states
reset_states(im) ==
    [im EXCEPT !.button_states = EmptyMap,
               !.mouse_pos_history = <<>>,
               !.scroll = <<0, 0>>,
               !.pen = PenStateDefault,
               !.physical_left_button_down = FALSE]

\* the variants handle_event passes to handle_button
ButtonEventTypes ==
    {"KeyDown", "KeyUp", "MouseButtonDown", "MouseButtonUp",
     "PenDown", "PenUp", "PenButtonDown", "PenButtonUp"}

\* handle_button, the match on the event: whether an arm other than
\* `_ => return` matched, the button and is_pressed it yields, and the
\* InputManager after the arm's assignments.  A key event carries
\* arg = <<keycode>>, or <<>> when its keycode is None.
NoButton(im) == [matched |-> FALSE, button |-> <<>>, is_pressed |-> FALSE, im |-> im]

ButtonOf(button, is_pressed, im) ==
    [matched |-> TRUE, button |-> button, is_pressed |-> is_pressed, im |-> im]

MatchButton(im, event) ==
    CASE event.type = "KeyDown" ->
            IF event.arg = <<>> THEN NoButton(im) ELSE ButtonOf(Key(event.arg[1]), TRUE, im)
      [] event.type = "KeyUp" ->
            IF event.arg = <<>> THEN NoButton(im) ELSE ButtonOf(Key(event.arg[1]), FALSE, im)
      [] event.type = "MouseButtonDown" ->
            IF event.arg[1] = "Left"
            THEN ButtonOf(MouseLeft, TRUE, [im EXCEPT !.physical_left_button_down = TRUE])
            ELSE ButtonOf(Mouse(event.arg[1]), TRUE, im)
      [] event.type = "MouseButtonUp" ->
            IF event.arg[1] = "Left"
            THEN ButtonOf(MouseLeft, im.pen.is_down,
                          [im EXCEPT !.physical_left_button_down = FALSE])
            ELSE ButtonOf(Mouse(event.arg[1]), FALSE, im)
      [] event.type = "PenDown" ->
            ButtonOf(MouseLeft, TRUE, [im EXCEPT !.pen.is_down = TRUE])
      [] event.type = "PenUp" ->
            ButtonOf(MouseLeft, im.physical_left_button_down,
                     [im EXCEPT !.pen = [PenStateDefault EXCEPT
                                            !.proximity = im.pen.proximity]])
      [] event.type = "PenButtonDown" -> ButtonOf(Pen(event.arg[1]), TRUE, im)
      [] event.type = "PenButtonUp" -> ButtonOf(Pen(event.arg[1]), FALSE, im)
      [] OTHER -> NoButton(im)

\* handle_button, the adjustment of is_pressed for the left mouse button
LeftPressed(button, is_pressed, pen_is_down) ==
    IF button = MouseLeft THEN is_pressed /\ pen_is_down ELSE is_pressed

NewButtonState_ResetsFrames(button_states, button, is_pressed) ==
    IF is_pressed THEN Down(0) ELSE Up(0)

\* handle_button, the match on button_states.entry(button)
NewButtonState(button_states, button, is_pressed) ==
    IF button \in DOMAIN button_states
    THEN LET entry == button_states[button]
         IN CASE entry.state = "Down" /\ is_pressed -> Down(NextFrames(entry.frames))
              [] entry.state = "Down" -> Up(0)
              [] entry.state = "Up" /\ ~is_pressed -> Up(NextFrames(entry.frames))
              [] OTHER -> Down(0)
    ELSE IF is_pressed THEN Down(0) ELSE Up(0)

\* InputManager::handle_button
handle_button(im, event) ==
    LET m == MatchButton(im, event)
    IN IF ~m.matched
       THEN im
       ELSE LET is_pressed == LeftPressed(m.button, m.is_pressed, m.im.pen.is_down)
                new_state == NewButtonState(m.im.button_states, m.button, is_pressed)
            IN [m.im EXCEPT !.button_states = MapInsert(@, m.button, new_state)]

\* handle_event, the PenAxis arm: arg = <<axis, value>>
SetPenAxis(pen, axis, value) ==
    CASE axis = "Pressure" -> [pen EXCEPT !.pressure = value]
      [] axis = "XTilt" -> [pen EXCEPT !.tilt[1] = value]
      [] axis = "YTilt" -> [pen EXCEPT !.tilt[2] = value]
      [] axis = "Distance" -> [pen EXCEPT !.distance = value]
      [] axis = "Rotation" -> [pen EXCEPT !.rotation = value]
      [] axis = "Slider" -> [pen EXCEPT !.slider = value]
      [] axis = "TangentialPressure" -> [pen EXCEPT !.tangential_pressure = value]
      [] OTHER -> pen

\* VecDeque::push_front followed by the pop_back of a history that is too long
PushFront(history, pos) ==
    LET pushed == <<pos>> \o history
    IN IF Len(pushed) > MousePosHistoryLen
       THEN SubSeq(pushed, 1, Len(pushed) - 1)
       ELSE pushed

handle_event_PushBack(im, event) ==
    CASE event.type \in ButtonEventTypes -> handle_button(im, event)
      [] event.type = "MouseMotion" ->
            [im EXCEPT !.mouse_pos_history =
                IF Len(@) >= MousePosHistoryLen THEN Tail(@) \o <<event.arg>>
                ELSE @ \o <<event.arg>>]
      [] OTHER -> im

\* InputManager::handle_event
handle_event(im, event) ==
    CASE event.type \in ButtonEventTypes -> handle_button(im, event)
      [] event.type = "MouseMotion" ->
            [im EXCEPT !.mouse_pos_history = PushFront(@, event.arg)]
      [] event.type = "MouseWheel" -> [im EXCEPT !.scroll = event.arg]
      [] event.type = "PenAxis" ->
            [im EXCEPT !.pen = SetPenAxis(@, event.arg[1], event.arg[2])]
      [] event.type = "PenProximityIn" -> [im EXCEPT !.pen.proximity = TRUE]
      [] event.type = "PenProximityOut" -> [im EXCEPT !.pen.proximity = FALSE]
      [] OTHER -> im

\* InputManager::is_down
is_down(im, button) ==
    button \in DOMAIN im.button_states /\ im.button_states[button].state = "Down"

\* InputManager::is_pressed
is_pressed(im, button) ==
    /\ button \in DOMAIN im.button_states
    /\ im.button_states[button].state = "Down"
    /\ im.button_states[button].frames = 0

\* InputManager::is_released
is_released(im, button) ==
    /\ button \in DOMAIN im.button_states
    /\ im.button_states[button].state = "Up"
    /\ im.button_states[button].frames = 0

-----------------------------------------------------------------------------
(***************************************************************************)
(* main.rs: the SQ application, its windows and its frame loop.  The       *)
(* Renderer of a window is the subject of the variables above; SQ::render  *)
(* does not call it.                                                       *)
(***************************************************************************)

\* SQ::new
SQNew == [windows |-> EmptyMap, running |-> TRUE]

\* SQWindow::new: config is the SurfaceConfiguration's width and height,
\* surface the width and height the surface was last configured with
SQWindowNew(width, height) ==
    [config |-> <<width, height>>,
     surface |-> <<width, height>>,
     size |-> <<width, height>>,
     inputs |-> InputManagerNew]

\* SQ::create_window, window_id being the id SDL gave the new window
create_window(app, window_id, width, height) ==
    [app EXCEPT !.windows = MapInsert(@, window_id, SQWindowNew(width, height))]

\* SQWindow::resize
resize(window, width, height) ==
    IF width > 0 /\ height > 0
    THEN [window EXCEPT !.config = <<width, height>>,
                        !.size = <<width, height>>,
                        !.surface = <<width, height>>]
    ELSE window

\* the variants for which get_window_id returns Some
WindowEventTypes ==
    {"Window", "KeyDown", "KeyUp", "MouseMotion", "MouseButtonDown", "MouseButtonUp",
     "MouseWheel", "TextInput", "TextEditing", "DropBegin", "DropText", "DropFile",
     "DropComplete", "PenMotion", "PenUp", "PenDown", "PenButtonDown", "PenButtonUp",
     "PenProximityIn", "PenProximityOut"}

\* SQ::get_window_id
get_window_id(event) ==
    IF event.type \in WindowEventTypes THEN Some(event.window_id) ELSE None

\* Event::Window { win_event: WindowEvent::Resized(width, height) }:
\* arg = <<"Resized", width, height>>
IsResized(event) == event.type = "Window" /\ event.arg[1] = "Resized"

\* SQWindow::handle_event
window_handle_event(window, event) ==
    IF IsResized(event)
    THEN resize(window, event.arg[2], event.arg[3])
    ELSE [window EXCEPT !.inputs = handle_event(@, event)]

\* handle_events, the body of the loop over the polled events
HandleOne(app, event) ==
    LET id == get_window_id(event)
    IN IF id # None
       THEN IF id[2] \in DOMAIN app.windows
            THEN [app EXCEPT !.windows[id[2]] = window_handle_event(@, event)]
            ELSE app
       ELSE IF event.type = "Quit"
            THEN [app EXCEPT !.running = FALSE]
            ELSE app

\* SQ::handle_events, events being what event_pump.poll_iter() yields
RECURSIVE handle_events(_, _)
handle_events(app, events) ==
    IF events = <<>>
    THEN app
    ELSE handle_events(HandleOne(app, Head(events)), Tail(events))

\* the events of a poll that reach the InputManager of window window_id
InputCalls(app, events, window_id) ==
    SelectSeq(events, LAMBDA event :
        /\ window_id \in DOMAIN app.windows
        /\ get_window_id(event) = Some(window_id)
        /\ ~IsResized(event))

\* a call SQ::render makes on a window: op "render" with the outcome of
\* SQWindow::render ("Ok" or the SurfaceError), or op "resize" with the size
RenderCall(window_id, op, arg) == [window |-> window_id, op |-> op, arg |-> arg]

OkUnit == <<"Ok">>
Err(e) == <<"Err", e>>

\* the errors SQ::render answers with resize and retry
Retried == {"Lost", "Outdated"}

RenderWindow_RetriesAgain(window, window_id, first, retry, size) ==
    IF first = "Ok"
    THEN [window |-> window, calls |-> <<RenderCall(window_id, "render", first)>>,
          result |-> OkUnit]
    ELSE [window |-> resize(window, size[1], size[2]),
          calls |-> <<RenderCall(window_id, "render", first),
                      RenderCall(window_id, "resize", size),
                      RenderCall(window_id, "render", retry)>>
                    \o (IF retry \in Retried
                        THEN <<RenderCall(window_id, "resize", size),
                               RenderCall(window_id, "render", "Ok")>>
                        ELSE <<>>),
          result |-> IF retry \in Retried \cup {"Ok"} THEN OkUnit ELSE Err(retry)]

\* SQ::render, the body of the loop over the windows: first and retry are what
\* SQWindow::render returns at the first and at the second attempt, size is
\* what window.window.size() returns
RenderWindow(window, window_id, first, retry, size) ==
    IF first = "Ok"
    THEN [window |-> window, calls |-> <<RenderCall(window_id, "render", first)>>,
          result |-> OkUnit]
    ELSE IF first \in Retried
    THEN [window |-> resize(window, size[1], size[2]),
          calls |-> <<RenderCall(window_id, "render", first),
                      RenderCall(window_id, "resize", size),
                      RenderCall(window_id, "render", retry)>>,
          result |-> IF retry = "Ok" THEN OkUnit ELSE Err(retry)]
    ELSE [window |-> window, calls |-> <<RenderCall(window_id, "render", first)>>,
          result |-> Err(first)]

\* SQ::render over the windows in the order the HashMap iterates them
RECURSIVE sq_render(_, _, _, _, _)
sq_render(windows, order, first, retry, sizes) ==
    IF order = <<>>
    THEN [windows |-> windows, calls |-> <<>>, result |-> OkUnit]
    ELSE LET id == Head(order)
             r == RenderWindow(windows[id], id, first[id], retry[id], sizes[id])
             after == [windows EXCEPT ![id] = r.window]
         IN IF r.result # OkUnit
            THEN [windows |-> after, calls |-> r.calls, result |-> r.result]
            ELSE LET rest == sq_render(after, Tail(order), first, retry, sizes)
                 IN [windows |-> rest.windows, calls |-> r.calls \o rest.calls,
                     result |-> rest.result]

\* the orders in which a HashMap with the keys ids can iterate
Orders(ids) ==
    {order \in [1..Cardinality(ids) -> ids] :
        \A i, j \in 1..Cardinality(ids) : order[i] = order[j] => i = j}

\* before run(): pc is the position of run() ("setup" before the call, then
\* "check", "update", "render", "sleep" in the loop, "exited" after the
\* break), frames the number of iterations begun, quit_frame the iteration
\* whose handle_events first processed a Quit (0 if none), error_frames the
\* iterations whose render returned Err, render_calls and render_result the
\* calls and the result of the latest SQ::render
FrameNew ==
    [pc |-> "setup", frames |-> 0, quit_frame |-> 0, error_frames |-> {},
     render_calls |-> <<>>, render_result |-> None]

\* InputManager::reset_states as an entry of input_events
ResetCall == Event("reset_states", 0, <<>>)

\* Renderer::new, AssetManager::new and SQ::new; no schedule is under
\* construction, no window exists and run() has not been called
Init ==
    /\ status = Running
    /\ builder = NoSchedule
    /\ schedule = RenderScheduleNew(EmptyMap)
    /\ queues = EmptyMap
    /\ depth_counter = 0
    /\ shaders = EmptySlotMap
    /\ draws = <<>>
    /\ frame_calls = <<>>
    /\ executed = Executed(<<>>, NoSchedule, FALSE)
    /\ counts = [builds |-> 0, queued |-> 0, executes |-> 0]
    /\ builder_call = Call("none", <<>>, <<>>)
    /\ materials = EmptySlotMap
    /\ textures = EmptySlotMap
    /\ dynamic_render_targets = EmptyMap
    /\ texture_assets = EmptyMap
    /\ asset_calls = <<>>
    /\ second = RendererNew
    /\ callers = [t \in Threads |-> Idle]
    /\ sq = SQNew
    /\ frame = FrameNew
    /\ input_events = EmptyMap

\* RenderSchedule::builder()
Builder ==
    /\ status = Running
    /\ counts.builds < MaxBuilds
    /\ builder' = RenderScheduleNew(EmptyMap)
    /\ counts' = [counts EXCEPT !.builds = @ + 1]
    /\ builder_call' = Call("builder", <<>>, <<>>)
    /\ UNCHANGED <<status, schedule, queues, depth_counter, shaders, draws,
                   frame_calls, executed>>
    /\ UNCHANGED <<materials, assetVars, windowVars, appVars>>

\* builder.with_render_target(name, target), the arguments drawn from inputs
WithRenderTarget(inputs) ==
    /\ status = Running
    /\ builder.live
    /\ \E in \in inputs :
          /\ builder' = with_render_target(builder, in[1], in[2])
          /\ builder_call' = Call("with_render_target", <<in[1], in[2]>>,
                                  <<in[1] \in DOMAIN builder.render_targets>>)
    /\ UNCHANGED <<status, schedule, queues, depth_counter, shaders, draws,
                   frame_calls, executed, counts>>
    /\ UNCHANGED <<materials, assetVars, windowVars, appVars>>

\* add_step called with `step` by add_pass or add_process: a panic drops the
\* schedule (it was moved into the call) and terminates the program
AddStep(op, step) ==
    /\ status = Running
    /\ builder.live
    /\ Len(builder.steps) < MaxSteps
    /\ IF add_step_panic(builder, step) # NoPanic
       THEN /\ status' = add_step_panic(builder, step)
            /\ builder' = NoSchedule
       ELSE /\ status' = status
            /\ builder' = add_step(builder, step)
    /\ builder_call' = Call(op, StepTargets(step),
                            [i \in 1..Len(StepTargets(step)) |->
                                StepTargets(step)[i] \in DOMAIN builder.render_targets])
    /\ UNCHANGED <<schedule, queues, depth_counter, shaders, draws,
                   frame_calls, executed, counts>>
    /\ UNCHANGED <<materials, assetVars, windowVars, appVars>>

\* builder.add_pass(pass_name, target)
AddPass(targets) ==
    \E pass_name \in PassNames, target \in targets :
        AddStep("add_pass", PassStep(pass_name, target))

\* builder.add_process(subject, shader, target)
AddProcess(subjects, targets) ==
    \E subject \in subjects, shader \in ShaderKeys, target \in targets :
        AddStep("add_process", ProcessStep(subject, shader, target))

\* a replacement of the schedule that also empties the queue map
SetSchedule_ClearsQueues ==
    /\ status = Running
    /\ builder.live
    /\ schedule' = builder
    /\ builder' = NoSchedule
    /\ builder_call' = Call("set_schedule", <<>>, <<>>)
    /\ queues' = EmptyMap
    /\ UNCHANGED <<status, depth_counter, shaders, draws, frame_calls, executed, counts>>
    /\ UNCHANGED <<materials, assetVars, windowVars, appVars>>

\* renderer.schedule = <the schedule built>: the built value is moved into
\* the renderer's public field
SetSchedule ==
    /\ status = Running
    /\ builder.live
    /\ schedule' = builder
    /\ builder' = NoSchedule
    /\ builder_call' = Call("set_schedule", <<>>, <<>>)
    /\ UNCHANGED <<status, queues, depth_counter, shaders, draws,
                   frame_calls, executed, counts>>
    /\ UNCHANGED <<materials, assetVars, windowVars, appVars>>

\* a render pipeline is inserted into the AssetManager's public shader table
InsertShader ==
    /\ status = Running
    /\ shaders.created < MaxShaders
    /\ shaders' = SlotInsert(shaders, ShaderKeyAt(shaders.created + 1), "RenderPipeline")
    /\ UNCHANGED <<status, builder, schedule, queues, depth_counter, draws,
                   frame_calls, executed, counts, builder_call>>
    /\ UNCHANGED <<materials, assetVars, windowVars, appVars>>

\* assets.shaders.write().unwrap().remove(key): the handle goes stale
RemoveShader ==
    /\ status = Running
    /\ \E key \in DOMAIN shaders.items : shaders' = SlotRemove(shaders, key)
    /\ UNCHANGED <<status, builder, schedule, queues, depth_counter, draws,
                   frame_calls, executed, counts, builder_call>>
    /\ UNCHANGED <<materials, assetVars, windowVars, appVars>>

\* assets.create_material(material); at most max materials are created
CreateMaterial(max) ==
    /\ status = Running
    /\ materials.created < max
    /\ materials' = SlotInsert(materials, MaterialKeyAt(materials.created + 1), "Material")
    /\ UNCHANGED <<rendererVars, assetVars, windowVars, appVars>>

\* assets.materials.write().unwrap().remove(key): the handle goes stale
RemoveMaterial ==
    /\ status = Running
    /\ \E key \in DOMAIN materials.items : materials' = SlotRemove(materials, key)
    /\ UNCHANGED <<rendererVars, assetVars, windowVars, appVars>>

\* the handles create_material has returned so far, live or stale
CreatedMaterialKeys == {MaterialKeyAt(n) : n \in 1..materials.created}

\* the pass names the Pass steps of a schedule name
ScheduledPasses(sched) ==
    {sched.steps[i].render_pass : i \in {j \in 1..Len(sched.steps) : sched.steps[j].kind = "Pass"}}

\* renderer.queue(material, mapping, transform, uniforms, pass_name, allow_transparency),
\* the material handle drawn from keys and the other arguments from inputs
Queue(max, keys, inputs) ==
    /\ status = Running
    /\ counts.queued < max
    /\ \E material \in keys, in \in inputs, pass_name \in PassNames :
          LET item == NewRenderQueue(material, in[1], in[2], in[3],
                                     depth_counter, counts.queued + 1)
          IN /\ depth_counter' = NextDepth(depth_counter)
             /\ queues' = QueuePush(queues, pass_name, item)
             /\ frame_calls' = Append(frame_calls,
                    [pass_name |-> pass_name, item |-> item,
                     scheduled |-> pass_name \in ScheduledPasses(schedule)])
    /\ counts' = [counts EXCEPT !.queued = @ + 1]
    /\ UNCHANGED <<status, builder, schedule, shaders, draws, executed,
                   builder_call>>
    /\ UNCHANGED <<materials, assetVars, windowVars, appVars>>

\* execute() taking the steps out of the schedule instead of cloning them
Execute_TakesSteps ==
    /\ status = Running
    /\ counts.executes < MaxExecutes
    /\ LET r == ExecuteSteps(schedule, DOMAIN shaders.items, 1, queues, <<>>)
       IN /\ draws' = r.draws
          /\ IF r.panic # NoPanic
             THEN /\ status' = r.panic
                  /\ queues' = r.queues
                  /\ depth_counter' = depth_counter
             ELSE /\ status' = status
                  /\ queues' = ClearQueues(r.queues)
                  /\ depth_counter' = ResetDepth(depth_counter)
          /\ executed' = Executed(frame_calls, schedule, r.panic = NoPanic)
    /\ frame_calls' = <<>>
    /\ counts' = [counts EXCEPT !.executes = @ + 1]
    /\ schedule' = [schedule EXCEPT !.steps = <<>>]
    /\ UNCHANGED <<builder, shaders, builder_call>>
    /\ UNCHANGED <<materials, assetVars, windowVars, appVars>>

\* renderer.execute()
Execute ==
    /\ status = Running
    /\ counts.executes < MaxExecutes
    /\ LET r == ExecuteSteps(schedule, DOMAIN shaders.items, 1, queues, <<>>)
       IN /\ draws' = r.draws
          /\ IF r.panic # NoPanic
             THEN /\ status' = r.panic
                  /\ queues' = r.queues
                  /\ depth_counter' = depth_counter
             ELSE /\ status' = status
                  /\ queues' = ClearQueues(r.queues)
                  /\ depth_counter' = ResetDepth(depth_counter)
          /\ executed' = Executed(frame_calls, schedule, r.panic = NoPanic)
    /\ frame_calls' = <<>>
    /\ counts' = [counts EXCEPT !.executes = @ + 1]
    /\ UNCHANGED <<builder, schedule, shaders, builder_call>>
    /\ UNCHANGED <<materials, assetVars, windowVars, appVars>>

\* create_dynamic_render_target registering the name in the renderer's
\* schedule as well
CreateDynamicRenderTarget_RegistersInSchedule ==
    /\ status = Running
    /\ Len(asset_calls) < MaxAssetCalls
    /\ \E size \in TargetSizes, name \in DynamicTargetNames :
        LET r == create_dynamic_render_target(size, name)
        IN /\ textures' = r.textures
           /\ dynamic_render_targets' = r.dynamic_render_targets
           /\ schedule' = with_render_target(schedule, name, r.key)
           /\ asset_calls' = Append(asset_calls,
                  AssetCall("create_dynamic_render_target", name, size, r.key,
                            r.textures.created - textures.created))
    /\ UNCHANGED <<status, builder, queues, depth_counter, shaders, draws,
                   frame_calls, executed, counts, builder_call>>
    /\ UNCHANGED <<materials, texture_assets, windowVars, appVars>>

\* renderer.create_dynamic_render_target(size, name)
CreateDynamicRenderTarget ==
    /\ status = Running
    /\ Len(asset_calls) < MaxAssetCalls
    /\ \E size \in TargetSizes, name \in DynamicTargetNames :
        LET r == create_dynamic_render_target(size, name)
        IN /\ textures' = r.textures
           /\ dynamic_render_targets' = r.dynamic_render_targets
           /\ asset_calls' = Append(asset_calls,
                  AssetCall("create_dynamic_render_target", name, size, r.key,
                            r.textures.created - textures.created))
    /\ UNCHANGED <<rendererVars, materials, texture_assets, windowVars, appVars>>

\* assets.load_texture(render_context, path)
LoadTexture ==
    /\ status = Running
    /\ Len(asset_calls) < MaxAssetCalls
    /\ \E path \in TexturePaths, outcome \in LoadOutcomes :
        LET r == load_texture(path, outcome)
        IN /\ textures' = r.textures
           /\ texture_assets' = r.texture_assets
           /\ asset_calls' = Append(asset_calls,
                  LoadCall(path, outcome, r.result,
                           r.textures.created - textures.created))
    /\ UNCHANGED <<rendererVars, materials, dynamic_render_targets, windowVars, appVars>>

\* second_window.renderer.schedule = <the schedule built>
SetScheduleSecond ==
    /\ status = Running
    /\ builder.live
    /\ second' = [second EXCEPT !.schedule = builder]
    /\ builder' = NoSchedule
    /\ builder_call' = Call("set_schedule", <<>>, <<>>)
    /\ UNCHANGED <<status, schedule, queues, depth_counter, shaders, draws,
                   frame_calls, executed, counts>>
    /\ UNCHANGED <<materials, assetVars, callers, appVars>>

\* the history tag of the second renderer's n-th queue() call
SecondCall(n) == <<"second", n>>

\* second_window.renderer.queue(..)
QueueSecond(max, keys, inputs) ==
    /\ status = Running
    /\ second.queued < max
    /\ \E material \in keys, in \in inputs, pass_name \in PassNames :
          LET item == NewRenderQueue(material, in[1], in[2], in[3],
                                     second.depth_counter, SecondCall(second.queued + 1))
          IN second' = [second EXCEPT
                 !.depth_counter = NextDepth(second.depth_counter),
                 !.queues = QueuePush(second.queues, pass_name, item),
                 !.frame_calls = Append(second.frame_calls,
                     [pass_name |-> pass_name, item |-> item,
                      scheduled |-> pass_name \in ScheduledPasses(second.schedule)]),
                 !.queued = second.queued + 1]
    /\ UNCHANGED <<rendererVars, materials, assetVars, callers, appVars>>

\* the second renderer's execute() working on the first renderer's queue map
ExecuteSecond_SharedQueues ==
    /\ status = Running
    /\ second.executes < MaxExecutes
    /\ LET r == ExecuteSteps(second.schedule, DOMAIN shaders.items, 1, queues, <<>>)
       IN /\ status' = (IF r.panic # NoPanic THEN r.panic ELSE status)
          /\ queues' = IF r.panic # NoPanic THEN r.queues ELSE ClearQueues(r.queues)
          /\ second' = [second EXCEPT
                 !.draws = r.draws,
                 !.frame_calls = <<>>,
                 !.executes = second.executes + 1]
    /\ UNCHANGED <<builder, schedule, depth_counter, shaders, draws,
                   frame_calls, executed, counts, builder_call>>
    /\ UNCHANGED <<materials, assetVars, callers, appVars>>

\* second_window.renderer.execute()
ExecuteSecond ==
    /\ status = Running
    /\ second.executes < MaxExecutes
    /\ LET r == ExecuteSteps(second.schedule, DOMAIN shaders.items, 1, second.queues, <<>>)
       IN /\ status' = (IF r.panic # NoPanic THEN r.panic ELSE status)
          /\ second' = [second EXCEPT
                 !.queues = IF r.panic # NoPanic THEN r.queues
                            ELSE ClearQueues(r.queues),
                 !.depth_counter = IF r.panic # NoPanic THEN second.depth_counter
                                   ELSE ResetDepth(second.depth_counter),
                 !.draws = r.draws,
                 !.frame_calls = <<>>,
                 !.executes = second.executes + 1]
    /\ UNCHANGED <<builder, schedule, queues, depth_counter, shaders, draws,
                   frame_calls, executed, counts, builder_call>>
    /\ UNCHANGED <<materials, assetVars, callers, appVars>>

\* thread t calls create_dynamic_render_target(size, name) on its renderer
DynEnter(t) ==
    /\ status = Running
    /\ callers[t].pc \in {"idle", "done"}
    /\ callers[t].calls < MaxThreadCalls
    /\ \E size \in TargetSizes, name \in DynamicTargetNames :
          callers' = [callers EXCEPT ![t] =
              [pc |-> "lookup", name |-> name, size |-> size, texture_key |-> None,
               result |-> None, calls |-> callers[t].calls + 1]]
    /\ UNCHANGED <<rendererVars, materials, assetVars, second, appVars>>

\* create_dynamic_render_target publishing the name, on a miss, under the key
\* the texture is going to get, before the texture is inserted
DynLookup_PublishesFirst(t) ==
    /\ status = Running
    /\ callers[t].pc = "lookup"
    /\ IF callers[t].name \in DOMAIN dynamic_render_targets
       THEN /\ callers' = [callers EXCEPT
                   ![t].pc = "done",
                   ![t].result = dynamic_render_targets[callers[t].name]]
            /\ asset_calls' = Append(asset_calls,
                   AssetCall("create_dynamic_render_target", callers[t].name,
                             callers[t].size, dynamic_render_targets[callers[t].name], 0))
            /\ dynamic_render_targets' = dynamic_render_targets
       ELSE /\ callers' = [callers EXCEPT ![t].pc = "insert_texture"]
            /\ asset_calls' = asset_calls
            /\ dynamic_render_targets' =
                   MapInsert(dynamic_render_targets, callers[t].name,
                             Texture(TextureKeyAt(textures.created + 1)))
    /\ UNCHANGED <<rendererVars, materials, textures, texture_assets, second, appVars>>

\* create_dynamic_render_target, under the read lock of dynamic_render_targets:
\* the lookup by name, and the return of the key found
DynLookup(t) ==
    /\ status = Running
    /\ callers[t].pc = "lookup"
    /\ IF callers[t].name \in DOMAIN dynamic_render_targets
       THEN /\ callers' = [callers EXCEPT
                   ![t].pc = "done",
                   ![t].result = dynamic_render_targets[callers[t].name]]
            /\ asset_calls' = Append(asset_calls,
                   AssetCall("create_dynamic_render_target", callers[t].name,
                             callers[t].size, dynamic_render_targets[callers[t].name], 0))
       ELSE /\ callers' = [callers EXCEPT ![t].pc = "insert_texture"]
            /\ asset_calls' = asset_calls
    /\ UNCHANGED <<rendererVars, materials, textures, dynamic_render_targets,
                   texture_assets, second, appVars>>

\* create_dynamic_render_target, under the write lock of textures: the insert
DynInsertTexture(t) ==
    /\ status = Running
    /\ callers[t].pc = "insert_texture"
    /\ LET texture_key == TextureKeyAt(textures.created + 1)
       IN /\ textures' = SlotInsert(textures, texture_key, SQTextureNew(callers[t].size))
          /\ callers' = [callers EXCEPT
                 ![t].pc = "insert_name",
                 ![t].texture_key = texture_key]
    /\ UNCHANGED <<rendererVars, materials, dynamic_render_targets, texture_assets,
                   asset_calls, second, appVars>>

\* create_dynamic_render_target, under the write lock of
\* dynamic_render_targets: the insert of the name, and the return of the new key
DynInsertName(t) ==
    /\ status = Running
    /\ callers[t].pc = "insert_name"
    /\ LET render_target_key == Texture(callers[t].texture_key)
       IN /\ dynamic_render_targets' =
                 MapInsert(dynamic_render_targets, callers[t].name, render_target_key)
          /\ callers' = [callers EXCEPT ![t].pc = "done", ![t].result = render_target_key]
          /\ asset_calls' = Append(asset_calls,
                 AssetCall("create_dynamic_render_target", callers[t].name,
                           callers[t].size, render_target_key, 1))
    /\ UNCHANGED <<rendererVars, materials, textures, texture_assets, second, appVars>>

\* SQ::create_window, successful (a failing SQWindow::new returns before the
\* insert); width and height as main() passes them
CreateWindow(ids) ==
    /\ frame.pc = "setup"
    /\ \E window_id \in ids \ DOMAIN sq.windows :
          /\ sq' = create_window(sq, window_id, 800, 600)
          /\ input_events' = MapInsert(input_events, window_id, <<>>)
    /\ UNCHANGED <<rendererVars, materials, assetVars, windowVars, frame>>

\* the call of SQ::run(): the top of the loop is reached
Run ==
    /\ frame.pc = "setup"
    /\ frame' = [frame EXCEPT !.pc = "check"]
    /\ UNCHANGED <<rendererVars, materials, assetVars, windowVars, sq, input_events>>

RunCheck_IgnoresRunning ==
    /\ frame.pc = "check"
    /\ frame.frames < MaxFrames
    /\ frame' = [frame EXCEPT !.pc = "update", !.frames = @ + 1]
    /\ UNCHANGED <<rendererVars, materials, assetVars, windowVars, sq, input_events>>

\* SQ::run, the top of the loop: break if running is false, else begin an
\* iteration
RunCheck ==
    /\ frame.pc = "check"
    /\ IF ~sq.running
       THEN frame' = [frame EXCEPT !.pc = "exited"]
       ELSE /\ frame.frames < MaxFrames
            /\ frame' = [frame EXCEPT !.pc = "update", !.frames = @ + 1]
    /\ UNCHANGED <<rendererVars, materials, assetVars, windowVars, sq, input_events>>

\* SQ::run, self.update(): handle_events on the events polled
Update(events) ==
    /\ frame.pc = "update"
    /\ \E n \in 0..MaxPolled : \E polled \in [1..n -> events] :
          /\ sq' = handle_events(sq, polled)
          /\ input_events' = [window_id \in DOMAIN input_events |->
                                 input_events[window_id] \o InputCalls(sq, polled, window_id)]
          /\ frame' = [frame EXCEPT
                 !.pc = "render",
                 !.quit_frame = IF @ = 0 /\ \E i \in 1..n : polled[i].type = "Quit"
                                THEN frame.frames ELSE @]
    /\ UNCHANGED <<rendererVars, materials, assetVars, windowVars>>

\* SQ::run, self.render(): the Result is dropped
Render(outcomes, sizes) ==
    /\ frame.pc = "render"
    /\ \E order \in Orders(DOMAIN sq.windows) :
       \E first \in [DOMAIN sq.windows -> outcomes] :
       \E retry \in [DOMAIN sq.windows -> outcomes] :
       \E size \in [DOMAIN sq.windows -> sizes] :
          LET r == sq_render(sq.windows, order, first, retry, size)
          IN /\ sq' = [sq EXCEPT !.windows = r.windows]
             /\ frame' = [frame EXCEPT
                    !.pc = "sleep",
                    !.render_calls = r.calls,
                    !.render_result = r.result,
                    !.error_frames = IF r.result # OkUnit
                                     THEN @ \cup {frame.frames} ELSE @]
    /\ UNCHANGED <<rendererVars, materials, assetVars, windowVars, input_events>>

\* SQ::run, the sleep for the rest of the frame time
Sleep ==
    /\ frame.pc = "sleep"
    /\ frame' = [frame EXCEPT !.pc = "check"]
    /\ UNCHANGED <<rendererVars, materials, assetVars, windowVars, sq, input_events>>

\* a call of InputManager::handle_event on the inputs of a window
HandleEvent(max, ids, events) ==
    /\ \E window_id \in ids \cap DOMAIN sq.windows : \E event \in events :
          /\ Len(SelectSeq(input_events[window_id], LAMBDA c : c # ResetCall)) < max
          /\ sq' = [sq EXCEPT !.windows[window_id].inputs = handle_event(@, event)]
          /\ input_events' = [input_events EXCEPT ![window_id] = Append(@, event)]
    /\ UNCHANGED <<rendererVars, materials, assetVars, windowVars, frame>>

\* a call of InputManager::reset_states on the inputs of a window
ResetStates(ids) ==
    /\ \E window_id \in ids \cap DOMAIN sq.windows :
          /\ Len(SelectSeq(input_events[window_id], LAMBDA c : c = ResetCall)) < MaxResets
          /\ sq' = [sq EXCEPT !.windows[window_id].inputs = reset_states(@)]
          /\ input_events' = [input_events EXCEPT ![window_id] = Append(@, ResetCall)]
    /\ UNCHANGED <<rendererVars, materials, assetVars, windowVars, frame>>

\* the frame cycle, with schedules built from the registered targets and
\* submissions that use the materials created
Next ==
    \/ Builder
    \/ WithRenderTarget(TargetInputs)
    \/ AddPass(TargetNames)
    \/ AddProcess(ProcessSubjects, ProcessTargets)
    \/ SetSchedule
    \/ InsertShader
    \/ CreateMaterial(MaxMaterials)
    \/ Queue(MaxQueueCalls, DOMAIN materials.items, QueueInputs)
    \/ Execute

Spec == Init /\ [][Next]_vars

\* schedule construction alone, with every name and key
NextBuilder ==
    \/ Builder
    \/ WithRenderTarget(AllTargetInputs)
    \/ AddPass(AllTargetNames)
    \/ AddProcess(AllTargetNames, AllTargetNames)

SpecBuilder == Init /\ [][NextBuilder]_vars

\* the frame cycle on the screen target, with materials that are removed while
\* submissions hold their handles
NextStale ==
    \/ Builder
    \/ AddPass(ScreenOnly)
    \/ AddProcess(ScreenOnly, ScreenOnly)
    \/ SetSchedule
    \/ InsertShader
    \/ CreateMaterial(MaxStaleMaterials)
    \/ RemoveMaterial
    \/ Queue(MaxStaleQueueCalls, CreatedMaterialKeys, QueueInputs)
    \/ Execute

SpecStale == Init /\ [][NextStale]_vars

\* queue() and execute() on a fresh Renderer, queue() with every pairing of a
\* Mapping variant and a Transform variant
NextPairing ==
    \/ CreateMaterial(MaxMaterials)
    \/ Queue(MaxPairingQueueCalls, DOMAIN materials.items, AllQueueInputs)
    \/ Execute

SpecPairing == Init /\ [][NextPairing]_vars

\* two windows on one AssetManager: each renderer is given a schedule, queued
\* on and executed
NextWindows ==
    \/ Builder
    \/ AddPass(ScreenOnly)
    \/ SetSchedule
    \/ SetScheduleSecond
    \/ CreateMaterial(MaxMaterials)
    \/ Queue(MaxWindowQueueCalls, DOMAIN materials.items, WindowInputs)
    \/ QueueSecond(MaxWindowQueueCalls, DOMAIN materials.items, WindowInputs)
    \/ Execute
    \/ ExecuteSecond

SpecWindows == Init /\ [][NextWindows]_vars

\* create_dynamic_render_target called on two threads, every lock acquisition
\* a step of its own, and load_texture
NextConcurrent ==
    \/ \E t \in Threads : DynEnter(t)
    \/ \E t \in Threads : DynLookup(t)
    \/ \E t \in Threads : DynInsertTexture(t)
    \/ \E t \in Threads : DynInsertName(t)
    \/ LoadTexture

SpecConcurrent == Init /\ [][NextConcurrent]_vars

\* the frame cycle on the screen target, with render pipelines that are
\* removed while Process steps hold their handles
NextShader ==
    \/ Builder
    \/ AddPass(ScreenOnly)
    \/ AddProcess(ScreenOnly, ScreenOnly)
    \/ SetSchedule
    \/ InsertShader
    \/ RemoveShader
    \/ CreateMaterial(MaxMaterials)
    \/ Queue(MaxWindowQueueCalls, DOMAIN materials.items, WindowInputs)
    \/ Execute

SpecShader == Init /\ [][NextShader]_vars

\* the names and keys create_dynamic_render_target has returned
DynamicTargetInputs ==
    {<<name, dynamic_render_targets[name]>> : name \in DOMAIN dynamic_render_targets}

\* the names a step can be given: the screen and the dynamic targets
StepTargetNames == ScreenOnly \cup DynamicTargetNames

\* dynamic render targets created while a schedule is built, installed and
\* queued on
NextDynamic ==
    \/ CreateDynamicRenderTarget
    \/ Builder
    \/ WithRenderTarget(DynamicTargetInputs)
    \/ AddPass(StepTargetNames)
    \/ AddProcess(ScreenOnly, StepTargetNames)
    \/ SetSchedule
    \/ CreateMaterial(MaxMaterials)
    \/ Queue(MaxWindowQueueCalls, DOMAIN materials.items, WindowInputs)

SpecDynamic == Init /\ [][NextDynamic]_vars

\* the calls that create textures
NextAssets ==
    \/ CreateDynamicRenderTarget
    \/ LoadTexture

SpecAssets == Init /\ [][NextAssets]_vars

\* the frame loop over two windows, with every outcome of SQWindow::render
NextRender ==
    \/ CreateWindow(WindowIds)
    \/ Run
    \/ RunCheck
    \/ Update({Event("Quit", 0, <<>>)})
    \/ Render(SurfaceOutcomes, WindowSizes)
    \/ Sleep

SpecRender == Init /\ [][NextRender]_vars

\* the frame loop of main(): one window, the events of LoopEvents
NextLoop ==
    \/ CreateWindow({1})
    \/ Run
    \/ RunCheck
    \/ Update(LoopEvents)
    \/ Render({"Ok", "Timeout", "Lost"}, WindowSizes)
    \/ Sleep

\* run() is sequential code: each of its steps returns (poll_iter does not
\* block, the sleep is bounded), so the loop always takes its next step
SpecLoop ==
    /\ Init
    /\ [][NextLoop]_vars
    /\ WF_vars(RunCheck)
    /\ WF_vars(Update(LoopEvents))
    /\ WF_vars(Render({"Ok", "Timeout", "Lost"}, WindowSizes))
    /\ WF_vars(Sleep)

\* the button events of one InputManager
NextButtons ==
    \/ CreateWindow({1})
    \/ HandleEvent(MaxButtonEvents, {1}, ButtonEvents)
    \/ ResetStates({1})

SpecButtons == Init /\ [][NextButtons]_vars

\* the mouse motions of one InputManager
NextMouse ==
    \/ CreateWindow({1})
    \/ HandleEvent(MaxMotionEvents, {1}, MotionEvents)
    \/ ResetStates({1})

SpecMouse == Init /\ [][NextMouse]_vars

----------------------------------------------------------------------------
(***************************************************************************)
(* Reading the history of the latest execute()                             *)
(***************************************************************************)

\* the submissions of a list of draw commands, in drawing order, each with
\* the kind, the step and the target of its command
RECURSIVE DrawnOf(_)
DrawnOf(commands) ==
    IF commands = <<>> THEN <<>>
    ELSE LET c == Head(commands)
         IN [k \in 1..Len(c.items) |->
                [kind |-> c.kind, step |-> c.step, of |-> c.of,
                 target |-> c.target, item |-> c.items[k]]]
            \o DrawnOf(Tail(commands))

\* the submissions the latest execute() drew
Drawn == DrawnOf(draws)

\* those drawn for one pass name
DrawnFor(p) == SelectSeq(Drawn, LAMBDA d : d.of.render_pass = p)

\* the queue() calls of the executed frame made with pass name p
CallsFor(p) == SelectSeq(executed.calls, LAMBDA c : c.pass_name = p)

HasExecuted == counts.executes >= 1

----------------------------------------------------------------------------
(***************************************************************************)
(* Properties                                                              *)
(***************************************************************************)

\* C1: whatever the interleaving of opaque and transparent queue() calls in a
\* frame, the transparent submissions execute() draws for one pass come in
\* non-decreasing queue_depth order, which is the order of their queue() calls.
C1_TransparentInQueueOrder ==
    \A p \in PassNames :
        LET t == SelectSeq(DrawnFor(p), LAMBDA d : d.kind = "transparent")
        IN \A i \in 1..Len(t) : \A j \in 1..Len(t) :
              i < j => /\ t[i].item.queue_depth <= t[j].item.queue_depth
                       /\ t[i].item.call_no < t[j].item.call_no

\* two transparent submissions of one pass were drawn, with an opaque
\* submission queued between them
C1_Witness ==
    \E p \in PassNames :
        LET t == SelectSeq(DrawnFor(p), LAMBDA d : d.kind = "transparent")
        IN /\ Len(t) >= 2
           /\ \E k \in 1..Len(executed.calls) :
                 /\ executed.calls[k].pass_name = p
                 /\ ~executed.calls[k].item.allow_transparency
                 /\ t[1].item.call_no < executed.calls[k].item.call_no
                 /\ executed.calls[k].item.call_no < t[2].item.call_no

\* C2: a Pass step that finds a queue entry issues the whole opaque batch of
\* its pass before any transparent submission of that pass, in whatever order
\* the submissions were queued.
C2_OpaqueBeforeTransparent ==
    \A i \in 1..Len(Drawn) :
        Drawn[i].kind = "transparent" =>
            \A k \in 1..Len(executed.calls) :
                LET c == executed.calls[k]
                IN (c.pass_name = Drawn[i].of.render_pass /\ ~c.item.allow_transparency)
                   => \E j \in 1..(i - 1) :
                         /\ Drawn[j].kind = "opaque"
                         /\ Drawn[j].step = Drawn[i].step
                         /\ Drawn[j].item = c.item

\* a transparent submission queued before an opaque one of the same pass was
\* drawn after it
C2_Witness ==
    \E i \in 1..Len(Drawn) : \E j \in 1..Len(Drawn) :
        /\ j < i
        /\ Drawn[j].kind = "opaque"
        /\ Drawn[i].kind = "transparent"
        /\ Drawn[i].step = Drawn[j].step
        /\ Drawn[i].item.call_no < Drawn[j].item.call_no

\* C3: when execute() returns, for every pass name that has a Pass step in the
\* schedule the number of opaque plus transparent submissions handed to
\* drawing equals the number of queue() calls made with that pass name in the
\* frame.
C3_DrawnCountEqualsQueued ==
    (HasExecuted /\ executed.returned) =>
        \A p \in ScheduledPasses(executed.schedule) :
            Len(DrawnFor(p)) = Len(CallsFor(p))

\* a frame of three calls, two of them to a scheduled pass that received
\* opaque and transparent submissions
C3_Witness ==
    /\ HasExecuted /\ executed.returned
    /\ Len(executed.calls) = 3
    /\ \E p \in ScheduledPasses(executed.schedule) :
          /\ Len(CallsFor(p)) = 2
          /\ \E d \in Range(DrawnFor(p)) : d.kind = "opaque"
          /\ \E d \in Range(DrawnFor(p)) : d.kind = "transparent"

\* the submissions of a sequence of draws or of queue() calls
Items(seq) == [k \in 1..Len(seq) |-> seq[k].item]

\* C4: the draw order of transparent submissions does not depend on their
\* Transform depth: the transparent submissions drawn for a pass are exactly
\* the transparent queue() calls of that pass in call order, and every opaque
\* submission of the pass is drawn before them (A opaque, B transparent z=1,
\* C transparent z=0.5 draws A, B, C).
C4_DrawOrderIgnoresDepth ==
    (HasExecuted /\ executed.returned) =>
        \A p \in ScheduledPasses(executed.schedule) :
            LET d == DrawnFor(p)
            IN /\ Items(SelectSeq(d, LAMBDA x : x.kind = "transparent"))
                    = Items(SelectSeq(CallsFor(p), LAMBDA c : c.item.allow_transparency))
               /\ \A i \in 1..Len(d) : \A j \in 1..Len(d) :
                     (d[i].kind = "opaque" /\ d[j].kind = "transparent") => i < j

\* the scenario: A opaque, then B transparent at depth 1.0, then C transparent
\* at depth 0.5, all to one pass, drawn as A, B, C
C4_Witness ==
    \E p \in PassNames :
        LET d == DrawnFor(p)
        IN /\ Len(d) = 3
           /\ d[1].kind = "opaque" /\ d[1].item.call_no = 1
           /\ d[2].kind = "transparent" /\ d[2].item.call_no = 2
           /\ d[3].kind = "transparent" /\ d[3].item.call_no = 3
           /\ depth(d[2].item.transform) = 2
           /\ depth(d[3].item.transform) = 1

\* C5: a submission queued with a pass name that no Pass step of the schedule
\* names is not drawn by the execute() that ends its frame, and it is not
\* drawn by a later execute() either: every submission an execute() draws was
\* queued in the frame that execute() ends, under a scheduled pass name.
C5_UnscheduledPassNeverDrawn ==
    /\ \A k \in 1..Len(executed.calls) :
          executed.calls[k].pass_name \notin ScheduledPasses(executed.schedule)
              => executed.calls[k].item \notin Range(Items(Drawn))
    /\ \A i \in 1..Len(Drawn) :
          \E k \in 1..Len(executed.calls) :
              /\ executed.calls[k].item = Drawn[i].item
              /\ executed.calls[k].pass_name = Drawn[i].of.render_pass
              /\ executed.calls[k].pass_name \in ScheduledPasses(executed.schedule)

\* execute() returned after drawing for a scheduled pass in a frame that also
\* held a call whose pass name no Pass step names
C5_Witness ==
    /\ HasExecuted /\ executed.returned
    /\ Drawn # <<>>
    /\ \E k \in 1..Len(executed.calls) :
          /\ executed.calls[k].pass_name \notin ScheduledPasses(executed.schedule)
          /\ executed.calls[k].item \notin Range(Items(Drawn))

\* C6: an execute() that follows another execute() with no queue() call in
\* between draws no opaque and no transparent submission.
C6_SecondExecuteDrawsNothing ==
    (counts.executes >= 2 /\ executed.calls = <<>>) => Drawn = <<>>

\* a second execute() ran right after a first one whose frame held calls, under
\* a schedule with a Pass step
C6_Witness ==
    /\ counts.executes = 2
    /\ executed.calls = <<>>
    /\ executed.returned
    /\ counts.queued > Len(frame_calls)
    /\ ScheduledPasses(executed.schedule) # {}

\* C7: whenever execute() returns, the per-pass queue map is empty and the
\* depth counter is 0 (checked in the states before the next queue() call).
C7_ExecuteClearsQueues ==
    (HasExecuted /\ executed.returned /\ frame_calls = <<>>) =>
        /\ queues = EmptyMap
        /\ DOMAIN queues = {}
        /\ depth_counter = 0

\* execute() returned after a frame in which one call went to a scheduled pass
\* and another to a pass name no step names
C7_Witness ==
    /\ HasExecuted /\ executed.returned /\ frame_calls = <<>>
    /\ \E k \in 1..Len(executed.calls) :
          executed.calls[k].pass_name \in ScheduledPasses(executed.schedule)
    /\ \E k \in 1..Len(executed.calls) :
          executed.calls[k].pass_name \notin ScheduledPasses(executed.schedule)

\* the steps of a schedule whose target or subject name is not a key of its
\* render_targets
DanglingSteps(sched) ==
    {i \in 1..Len(sched.steps) :
        \E k \in 1..Len(StepTargets(sched.steps[i])) :
            StepTargets(sched.steps[i])[k] \notin DOMAIN sched.render_targets}

\* C8: add_pass with a target name that is not registered in the schedule's
\* target mapping at that moment fails fatally at construction: the program
\* is terminated by the panic and the schedule under construction is gone, so
\* no schedule holding that step exists.
C8_AddPassUnregisteredPanics ==
    (builder_call.op = "add_pass" /\ ~builder_call.registered[1]) =>
        /\ status = PanicTarget
        /\ builder = NoSchedule

\* add_pass was called with the name "undefined_target", which nothing registers
C8_Witness ==
    /\ builder_call.op = "add_pass"
    /\ builder_call.args = <<"undefined_target">>
    /\ ~builder_call.registered[1]
    /\ status = PanicTarget

\* C9: add_process fails fatally when the subject name is unregistered, and
\* also when the target name is unregistered; it appends the Process step
\* only when both names are registered.
C9_AddProcessChecksBothNames ==
    builder_call.op = "add_process" =>
        IF ~builder_call.registered[1]
        THEN status = PanicProcessSubject /\ builder = NoSchedule
        ELSE IF ~builder_call.registered[2]
        THEN status = PanicProcessTarget /\ builder = NoSchedule
        ELSE /\ builder.live
             /\ builder.steps # <<>>
             /\ LET last == builder.steps[Len(builder.steps)]
                IN /\ last.kind = "Process"
                   /\ <<last.subject, last.target>> = builder_call.args

\* add_process was called with a registered subject and an unregistered target
C9_Witness ==
    /\ builder_call.op = "add_process"
    /\ builder_call.registered = <<TRUE, FALSE>>
    /\ status = PanicProcessTarget

\* C10: after any sequence of builder(), with_render_target, add_pass and
\* add_process calls that does not fail, every target name and every subject
\* name a step of the schedule refers to is a key of the schedule's
\* render-target mapping.
C10_StepNamesRegistered ==
    /\ builder.live => DanglingSteps(builder) = {}
    /\ DanglingSteps(schedule) = {}

\* a schedule under construction holds a Pass step and a Process step that
\* refer to a target registered by with_render_target
C10_Witness ==
    /\ builder.live
    /\ Len(builder.steps) = 2
    /\ builder.steps[1].kind = "Pass" /\ builder.steps[1].target = "fog"
    /\ builder.steps[2].kind = "Process" /\ builder.steps[2].subject = "fog"

\* C11: after any sequence of builder operations, with_render_target calls
\* with any name and any key included, the schedule's target mapping contains
\* the name "screen" and maps it to RenderTargetKey::Screen.
C11_ScreenMapsToScreen ==
    builder.live =>
        /\ "screen" \in DOMAIN builder.render_targets
        /\ builder.render_targets["screen"] = Screen

\* the draw commands of the latest execute() follow the order of the steps of
\* the schedule it ran: each command was issued by the step at its index, the
\* indices never decrease, and once execute() has returned every Process step
\* has issued exactly one command
DrawsFollowSteps ==
    /\ \A k \in 1..Len(draws) :
          /\ draws[k].step \in 1..Len(executed.schedule.steps)
          /\ draws[k].of = executed.schedule.steps[draws[k].step]
          /\ k > 1 => draws[k - 1].step <= draws[k].step
    /\ (HasExecuted /\ executed.returned) =>
          \A i \in 1..Len(executed.schedule.steps) :
              executed.schedule.steps[i].kind = "Process" =>
                  Cardinality({k \in 1..Len(draws) : draws[k].step = i}) = 1

\* a successful add_pass or add_process leaves the earlier steps in place and
\* puts its step last, and installing the schedule keeps the list as built
StepAppendedLast ==
    /\ (builder_call'.op \in {"add_pass", "add_process"} /\ builder' # builder /\ builder'.live) =>
          /\ Len(builder'.steps) = Len(builder.steps) + 1
          /\ SubSeq(builder'.steps, 1, Len(builder.steps)) = builder.steps
          /\ LET last == builder'.steps[Len(builder'.steps)]
             IN /\ last.kind = (IF builder_call'.op = "add_pass" THEN "Pass" ELSE "Process")
                /\ StepTargets(last) = builder_call'.args
    /\ schedule' # schedule => schedule'.steps = builder.steps

\* C12: execute() processes the schedule's steps in exactly the order in which
\* add_pass and add_process appended them: the i-th step added is the i-th
\* step of the list, and the i-th step of the list is the i-th processed, with
\* no reordering between Pass and Process steps.
C12_StepsProcessedInOrderAdded ==
    /\ []DrawsFollowSteps
    /\ [][StepAppendedLast]_vars

\* execute() ran a schedule whose first step is a Process step and whose
\* second is a Pass step, and both issued commands, in that order
C12_Witness ==
    /\ HasExecuted /\ executed.returned
    /\ Len(executed.schedule.steps) = 2
    /\ executed.schedule.steps[1].kind = "Process"
    /\ executed.schedule.steps[2].kind = "Pass"
    /\ Len(draws) >= 2
    /\ draws[1].step = 1 /\ draws[1].kind = "process"
    /\ draws[2].step = 2

\* the pass names of the Pass steps of a step list, in step order
PassNamesOf(steps) ==
    LET passes == SelectSeq(steps, LAMBDA st : st.kind = "Pass")
    IN [k \in 1..Len(passes) |-> passes[k].render_pass]

\* a list without the later occurrences of its elements
RECURSIVE FirstOccurrences(_)
FirstOccurrences(seq) ==
    IF seq = <<>> THEN <<>>
    ELSE LET init == FirstOccurrences(SubSeq(seq, 1, Len(seq) - 1))
             last == seq[Len(seq)]
         IN IF last \in Range(init) THEN init ELSE Append(init, last)

\* C13: after any sequence of successful builder calls, the schedule's
\* pass-name list has no duplicates, holds exactly the pass names that occur
\* in Pass steps, and lists them in the order of their first add_pass call.
C13_PassNamesDistinctInFirstUse ==
    builder.live =>
        /\ builder.pass_names = FirstOccurrences(PassNamesOf(builder.steps))
        /\ \A i \in 1..Len(builder.pass_names) : \A j \in 1..Len(builder.pass_names) :
              builder.pass_names[i] = builder.pass_names[j] => i = j

\* add_pass was called twice with the same pass name, and the name is listed once
C13_Witness ==
    /\ builder.live
    /\ Len(builder.steps) = 2
    /\ builder.steps[1].kind = "Pass" /\ builder.steps[2].kind = "Pass"
    /\ builder.steps[1].render_pass = builder.steps[2].render_pass
    /\ builder.pass_names = <<builder.steps[1].render_pass>>

\* the positions of asset_calls that are create_dynamic_render_target calls
DynamicCalls ==
    {i \in 1..Len(asset_calls) : asset_calls[i].op = "create_dynamic_render_target"}

\* C14: create_dynamic_render_target is idempotent by name: two calls with
\* the same name, with any sizes and any other calls in between, return the
\* same key and allocate one texture between them (the first call allocates
\* it, a later call allocates nothing), while calls with different names
\* return distinct keys, each of a texture of its own in the table.
C14_DynamicTargetIdempotentByName ==
    /\ \A i \in DynamicCalls, j \in DynamicCalls :
          /\ (i < j /\ asset_calls[i].name = asset_calls[j].name) =>
                /\ asset_calls[j].result = asset_calls[i].result
                /\ asset_calls[j].allocated = 0
          /\ asset_calls[i].name # asset_calls[j].name =>
                asset_calls[i].result # asset_calls[j].result
    /\ \A i \in DynamicCalls :
          /\ (\A h \in DynamicCalls : h < i => asset_calls[h].name # asset_calls[i].name)
                => asset_calls[i].allocated = 1
          /\ asset_calls[i].result[1] = "Texture"
          /\ asset_calls[i].result[2] \in DOMAIN textures.items
          /\ dynamic_render_targets[asset_calls[i].name] = asset_calls[i].result
    /\ \A p \in DOMAIN texture_assets :
          \A i \in DynamicCalls : asset_calls[i].result # Texture(texture_assets[p])

\* a target created, a texture loaded, the same target asked for again with
\* another size, and all three calls done
C14_Witness ==
    /\ Len(asset_calls) = 3
    /\ asset_calls[1].op = "create_dynamic_render_target"
    /\ asset_calls[2].op = "load_texture"
    /\ asset_calls[2].allocated = 1
    /\ asset_calls[3].op = "create_dynamic_render_target"
    /\ asset_calls[3].name = asset_calls[1].name
    /\ asset_calls[3].size # asset_calls[1].size
    /\ asset_calls[3].result = asset_calls[1].result

\* the submissions the queue map holds under a pass name, both buckets
Held(p) == IF p \in DOMAIN queues THEN queues[p][1] \o queues[p][2] ELSE <<>>

\* the buckets of the queue map
Buckets == {queues[p][b] : p \in DOMAIN queues, b \in {1, 2}}

\* all submissions the queue map holds
AllHeld == UNION {Range(bucket) : bucket \in Buckets}

\* C15: within one frame the k-th queue() call, counted from 0 since
\* construction or the last execute(), records queue_depth = k and leaves the
\* depth counter at k + 1; so the submissions held in the queue map, across all
\* pass names and both buckets, have pairwise distinct queue_depth values and
\* every bucket is strictly increasing in queue_depth.
C15_QueueDepthCountsCalls ==
    /\ \A k \in 1..Len(frame_calls) : frame_calls[k].item.queue_depth = k - 1
    /\ status = Running =>
          /\ depth_counter = Len(frame_calls)
          /\ AllHeld = {frame_calls[k].item : k \in 1..Len(frame_calls)}
    /\ \A x \in AllHeld, y \in AllHeld : x.queue_depth = y.queue_depth => x = y
    /\ \A bucket \in Buckets :
          \A i \in 1..Len(bucket), j \in 1..Len(bucket) :
              i < j => bucket[i].queue_depth < bucket[j].queue_depth
    /\ \A p \in DOMAIN queues :
          \A i \in 1..Len(queues[p][1]), j \in 1..Len(queues[p][2]) :
              queues[p][1][i] # queues[p][2][j]

\* the second frame: one call before the first execute(), then two calls that
\* fill two buckets and leave the counter at 2
C15_Witness ==
    /\ status = Running
    /\ counts.executes = 1
    /\ counts.queued = 3
    /\ Len(frame_calls) = 2
    /\ depth_counter = 2
    /\ Cardinality(Buckets \ {<<>>}) = 2
    /\ Cardinality(AllHeld) = 2

\* the number of times a list of draw commands draws a submission
TimesDrawn(commands, item) ==
    Cardinality({d \in DOMAIN DrawnOf(commands) : DrawnOf(commands)[d].item = item})

\* a step of the state machine that is a call of execute()
ExecuteStep == counts'.executes = counts.executes + 1

\* the Process steps of the schedule index a target and a shader that exist
ProcessStepsIndexable ==
    \A i \in 1..Len(schedule.steps) :
        schedule.steps[i].kind = "Process" =>
            ProcessPanic(schedule, DOMAIN shaders.items, schedule.steps[i]) = NoPanic

\* what a call of execute() does with the frame's submissions, some of which
\* hold a material handle that is no longer in the table
StaleHandleContained ==
    ExecuteStep =>
        /\ status' = Running <=> ProcessStepsIndexable
        /\ ProcessStepsIndexable =>
              /\ executed'.returned
              /\ queues' = EmptyMap
              /\ depth_counter' = 0
              /\ \A k \in 1..Len(frame_calls) :
                    LET call == frame_calls[k]
                    IN IF call.pass_name \notin ScheduledPasses(schedule)
                       THEN TimesDrawn(draws', call.item) = 0
                       ELSE IF get_material(call.item.material) # None
                       THEN TimesDrawn(draws', call.item) = 1
                       ELSE TimesDrawn(draws', call.item) <= 1
              /\ \A i \in 1..Len(schedule.steps) :
                    schedule.steps[i].kind = "Process" =>
                        Cardinality({c \in DOMAIN draws' : draws'[c].step = i}) = 1

\* C16: when a queued submission's material handle is no longer in the
\* resource table at execute() time, execute() skips that submission or draws
\* it once with a fallback, still draws every other submission of the same
\* pass, processes all remaining steps, and returns normally with the queues
\* cleared: a stale handle never aborts the frame.
C16_StaleHandleDoesNotAbortFrame == [][StaleHandleContained]_vars

\* execute() has returned from a frame in which a submission with a removed
\* material was skipped, a submission of the same pass was drawn, and the
\* Process step after the pass was processed
C16_Witness ==
    /\ executed.returned
    /\ status = Running
    /\ queues = EmptyMap
    /\ \E i \in 1..Len(executed.calls), j \in 1..Len(executed.calls) :
          /\ executed.calls[i].pass_name = executed.calls[j].pass_name
          /\ executed.calls[i].pass_name \in ScheduledPasses(executed.schedule)
          /\ get_material(executed.calls[i].item.material) = None
          /\ TimesDrawn(draws, executed.calls[i].item) = 0
          /\ TimesDrawn(draws, executed.calls[j].item) = 1
    /\ Len(executed.schedule.steps) = 2
    /\ executed.schedule.steps[2].kind = "Process"
    /\ draws[Len(draws)].step = 2

\* C17: a queue() call whose Mapping and Transform variants differ is treated
\* as an error by a runtime check, so that no bucket of the queue map ever
\* holds a submission whose Mapping variant differs from its Transform
\* variant. (queue() has no such check: the formula is violated.)
C17_NoMismatchedSubmissionHeld ==
    \A x \in AllHeld : x.mapping = x.transform.variant

\* a step of the state machine that is a call of queue()
QueueStep == counts'.queued = counts.queued + 1

\* what a call of queue() does to the queue map, read from the call recorded
\* last in the frame's history
QueueAppendsOne ==
    QueueStep =>
        LET call == frame_calls'[Len(frame_calls')]
            p == call.pass_name
            opaque == IF p \in DOMAIN queues THEN queues[p][1] ELSE <<>>
            transparent == IF p \in DOMAIN queues THEN queues[p][2] ELSE <<>>
        IN /\ status' = Running
           /\ schedule' = schedule
           /\ Len(frame_calls') = Len(frame_calls) + 1
           /\ DOMAIN queues' = DOMAIN queues \cup {p}
           /\ IF call.item.allow_transparency
              THEN /\ queues'[p][2] = Append(transparent, call.item)
                   /\ queues'[p][1] = opaque
              ELSE /\ queues'[p][1] = Append(opaque, call.item)
                   /\ queues'[p][2] = transparent
           /\ \A other \in DOMAIN queues \ {p} : queues'[other] = queues[other]

\* queue() can be called with every pass name, scheduled or not, as long as
\* the program runs and the bound on the calls allows
QueueAlwaysAccepted ==
    (status = Running /\ counts.queued < MaxQueueCalls /\ materials.items # <<>>) =>
        \A p \in PassNames : ENABLED (Queue(MaxQueueCalls, DOMAIN materials.items, QueueInputs)
                                        /\ frame_calls'[Len(frame_calls')].pass_name = p)

\* C18: queue(..., pass_name, allow_transparency) never fails and never
\* consults the schedule: it appends exactly one entry at the end of the
\* transparent list of pass_name when allow_transparency is true and of the
\* opaque list otherwise, creating the pair of lists if absent, and leaves the
\* lists of every other pass name and the other list of the same pass as
\* they were.
C18_QueueAppendsToItsList == []QueueAlwaysAccepted /\ [][QueueAppendsOne]_vars

\* three calls in one frame: a pass that no step of the schedule names holds
\* an opaque and a transparent submission, and another pass holds one too
C18_Witness ==
    /\ status = Running
    /\ \E p \in DOMAIN queues, other \in DOMAIN queues :
          /\ p # other
          /\ p \notin ScheduledPasses(schedule)
          /\ Len(queues[p][1]) = 1
          /\ Len(queues[p][2]) = 1
          /\ Len(Held(other)) = 1
          /\ queues[p][1][1].queue_depth < queues[other][1 + Len(queues[other][2])][1].queue_depth
          /\ queues[other][1 + Len(queues[other][2])][1].queue_depth < queues[p][2][1].queue_depth

\* replacing the schedule leaves the queue map and the depth counter alone
ScheduleReplacedKeepsQueues ==
    schedule' # schedule => (queues' = queues /\ depth_counter' = depth_counter)

\* after an execute() that returned, the submissions of the frame that were
\* queued while the schedule had no Pass step for their pass name, and whose
\* pass name the schedule executed has a Pass step for, were drawn once
LateScheduledDrawn ==
    executed.returned =>
        \A k \in 1..Len(executed.calls) :
            LET call == executed.calls[k]
            IN (~call.scheduled /\ call.pass_name \in ScheduledPasses(executed.schedule))
                  => TimesDrawn(draws, call.item) = 1

\* C19: submission order relative to schedule construction is unconstrained:
\* a submission queued while the renderer's schedule has no Pass step for its
\* pass name is drawn by the next execute() (one that returns) if, before that
\* execute(), the schedule is replaced by one that has a Pass step for that
\* pass name.
C19_QueuedBeforeScheduledIsDrawn ==
    []LateScheduledDrawn /\ [][ScheduleReplacedKeepsQueues]_vars

\* execute() returned and drew a submission whose pass name no step of the
\* schedule named when it was queued
C19_Witness ==
    /\ executed.returned
    /\ \E k \in 1..Len(executed.calls) :
          /\ ~executed.calls[k].scheduled
          /\ executed.calls[k].pass_name \in ScheduledPasses(executed.schedule)
          /\ TimesDrawn(draws, executed.calls[k].item) = 1

\* a schedule with no steps, no pass names and the one target "screen" -> Screen
EmptySeeded(sched) ==
    /\ sched.live
    /\ sched.steps = <<>>
    /\ sched.pass_names = <<>>
    /\ DOMAIN sched.render_targets = {"screen"}
    /\ sched.render_targets["screen"] = Screen

\* C20: builder() returns a schedule with no steps, an empty pass-name list
\* and a target mapping that holds exactly one entry, "screen" mapped to
\* Screen; the schedule of a freshly constructed Renderer, which nothing has
\* been assigned to, is in the same state.
C20_BuilderReturnsEmptySeeded ==
    /\ builder_call.op = "builder" => EmptySeeded(builder)
    /\ EmptySeeded(schedule)
    /\ builder_call.op = "builder" => schedule = builder

\* builder() has just returned, next to the schedule of the fresh Renderer
C20_Witness ==
    /\ builder_call.op = "builder"
    /\ counts.builds = 1
    /\ builder.live
    /\ schedule.live

\* a step of the state machine that is a call of with_render_target()
WithRenderTargetStep ==
    /\ builder_call'.op = "with_render_target"
    /\ <<builder, builder_call>>' # <<builder, builder_call>>

\* what a call of with_render_target(name, key) does to the schedule
WithRenderTargetSetsOne ==
    WithRenderTargetStep =>
        LET name == builder_call'.args[1]
            key == builder_call'.args[2]
        IN /\ builder'.live
           /\ builder'.steps = builder.steps
           /\ builder'.pass_names = builder.pass_names
           /\ DOMAIN builder'.render_targets = DOMAIN builder.render_targets \cup {name}
           /\ builder'.render_targets[name] = key
           /\ \A other \in DOMAIN builder.render_targets \ {name} :
                 builder'.render_targets[other] = builder.render_targets[other]

\* C21: with_render_target(name, key) sets the mapping of name to key,
\* replacing any earlier key for that name, and leaves the step list, the
\* pass-name list and the mapping of every other name as they were; it never
\* removes a name from the mapping.
C21_WithRenderTargetSetsOneName == [][WithRenderTargetSetsOne]_vars

\* with_render_target has just replaced the key of a name the schedule held,
\* in a schedule that has a step and another name
C21_Witness ==
    /\ builder.live
    /\ builder_call.op = "with_render_target"
    /\ builder_call.registered = <<TRUE>>
    /\ builder_call.args[2] # Screen
    /\ builder.render_targets[builder_call.args[1]] = builder_call.args[2]
    /\ builder_call.args[1] = "screen"
    /\ "fog" \in DOMAIN builder.render_targets
    /\ Len(builder.steps) >= 1

\* the schedule changes only by being replaced with the schedule built
ScheduleChangesOnlyByReplacement ==
    schedule' # schedule => (builder_call'.op = "set_schedule" /\ schedule' = builder)

\* a call of queue() or execute() leaves the schedule as it was
FrameCallsKeepSchedule ==
    (QueueStep \/ ExecuteStep) => schedule' = schedule

\* C22: queue() and execute() leave the renderer's schedule unchanged: after
\* any sequence of queue() and execute() calls the steps, the pass-name list
\* and the target mapping equal what they were when the schedule was
\* installed.
C22_FrameCallsLeaveSchedule ==
    [][FrameCallsKeepSchedule /\ ScheduleChangesOnlyByReplacement]_vars

\* a schedule with two steps was installed, a frame was queued and executed
\* with it, and a submission of the next frame is queued
C22_Witness ==
    /\ status = Running
    /\ builder_call.op = "set_schedule"
    /\ Len(schedule.steps) = 2
    /\ executed.returned
    /\ executed.schedule = schedule
    /\ Len(executed.calls) >= 1
    /\ draws # <<>>
    /\ Len(frame_calls) >= 1

\* a step of the state machine that is a call of the second renderer's
\* queue() or execute()
SecondQueueStep == second'.queued = second.queued + 1
SecondExecuteStep == second'.executes = second.executes + 1

\* the calls of one renderer leave the queue map and the depth counter of the
\* other as they were
RenderersApart ==
    /\ (QueueStep \/ ExecuteStep) =>
          (second'.queues = second.queues /\ second'.depth_counter = second.depth_counter)
    /\ (SecondQueueStep \/ SecondExecuteStep) =>
          (queues' = queues /\ depth_counter' = depth_counter)

\* the submissions a list of draw commands draws
DrawnItems(commands) == {DrawnOf(commands)[d].item : d \in DOMAIN DrawnOf(commands)}

\* the submissions of a queue map
HeldIn(q) == UNION {Range(q[p][1]) \cup Range(q[p][2]) : p \in DOMAIN q}

\* every renderer draws and holds submissions of its own queue() calls only
OwnSubmissionsOnly ==
    /\ \A x \in DrawnItems(draws) \cup HeldIn(queues) : x.call_no \in 1..counts.queued
    /\ \A x \in DrawnItems(second.draws) \cup HeldIn(second.queues) :
          x.call_no \in {SecondCall(n) : n \in 1..second.queued}

\* C23: with two Renderer instances (two windows) that share one
\* AssetManager, queue() and execute() on one renderer leave the other
\* renderer's queue map and depth counter unchanged, and a submission queued
\* on one renderer is never drawn by the other's execute().
C23_RenderersShareNoQueues == []OwnSubmissionsOnly /\ [][RenderersApart]_vars

\* the second renderer has executed a schedule with a Pass step for a pass
\* name under which the first renderer holds a submission, and drew only its
\* own submission
C23_Witness ==
    /\ status = Running
    /\ second.executes = 1
    /\ Cardinality(DrawnItems(second.draws)) = 1
    /\ \E p \in ScheduledPasses(second.schedule) : Len(Held(p)) = 1
    /\ depth_counter = 1

\* the textures of the table that were made for dynamic render targets
DynamicTextures == {k \in DOMAIN textures.items : textures.items[k][2] = "new"}

\* C24: for every interleaving of two create_dynamic_render_target calls
\* with the same name made by two Renderers that share one AssetManager, each
\* lock acquisition being one atomic step, exactly one texture is inserted
\* into the texture table and both calls return the same key. (Both calls can
\* miss the name before either publishes it: the formula is violated.)
C24_ConcurrentSameNameOneTexture ==
    \A t \in Threads, u \in Threads :
        (/\ t # u
         /\ callers[t].pc = "done"
         /\ callers[u].pc = "done"
         /\ callers[t].name = callers[u].name) =>
            /\ callers[t].result = callers[u].result
            /\ Cardinality(DynamicTextures) = 1

\* the positions of the Pass steps of a schedule that name pass p
PassStepsOf(sched, p) ==
    {i \in 1..Len(sched.steps) :
        sched.steps[i].kind = "Pass" /\ sched.steps[i].render_pass = p}

\* the least element of a non-empty set of positions
First(positions) == CHOOSE i \in positions : \A j \in positions : i <= j

\* C25: when the schedule has two or more Pass steps with the same pass name,
\* one execute() draws each submission queued for that pass exactly once, into
\* the target of the first such step; the later Pass steps with that name find
\* no queue entry and draw nothing.
C25_RepeatedPassDrawsOnceAtFirstStep ==
    \A p \in PassNames :
        LET at == PassStepsOf(executed.schedule, p)
        IN Cardinality(at) >= 2 =>
              /\ \A c \in DOMAIN draws :
                    draws[c].of.render_pass = p =>
                        /\ draws[c].step = First(at)
                        /\ draws[c].target = executed.schedule.steps[First(at)].target
              /\ executed.returned =>
                    \A k \in 1..Len(executed.calls) :
                        executed.calls[k].pass_name = p =>
                            TimesDrawn(draws, executed.calls[k].item) = 1

\* execute() returned from a schedule of two Pass steps that name one pass and
\* two targets, with an opaque and a transparent submission queued for it
C25_Witness ==
    /\ executed.returned
    /\ Len(executed.schedule.steps) = 2
    /\ \E p \in PassNames :
          /\ PassStepsOf(executed.schedule, p) = {1, 2}
          /\ Len(CallsFor(p)) >= 2
    /\ executed.schedule.steps[1].target # executed.schedule.steps[2].target
    /\ Len(draws) = 2
    /\ draws[1].step = 1
    /\ draws[2].step = 1

\* the submissions queued since the latest execute()
FrameItems == {frame_calls[k].item : k \in 1..Len(frame_calls)}

\* a call of execute() draws submissions of the frame it ends only: those
\* queued since the execute() before it, none of which that one drew
ExecuteDrawsOwnFrame ==
    ExecuteStep =>
        /\ DrawnItems(draws') \subseteq FrameItems
        /\ \A x \in DrawnItems(draws') :
              x.call_no \in (counts.queued - Len(frame_calls) + 1)..counts.queued
        /\ DrawnItems(draws') \cap DrawnItems(draws) = {}

\* what the latest execute() drew is among what was queued for it, and what
\* has been queued since is newer than all of it
DrawnWithinFrame ==
    /\ DrawnItems(draws) \subseteq {executed.calls[k].item : k \in 1..Len(executed.calls)}
    /\ \A x \in DrawnItems(draws), y \in FrameItems : x.call_no < y.call_no

\* C26: every submission drawn by an execute() call was queued after the
\* previous execute() call returned (or after construction), and no
\* submission is drawn by two different execute() calls.
C26_DrawnInItsOwnFrameOnly == []DrawnWithinFrame /\ [][ExecuteDrawsOwnFrame]_vars

\* the second execute() returned and drew a submission, after a first frame
\* in which a submission was queued
C26_Witness ==
    /\ counts.executes = 2
    /\ executed.returned
    /\ counts.queued = 3
    /\ Len(executed.calls) = 2
    /\ DrawnItems(draws) # {}
    /\ \A x \in DrawnItems(draws) : x.call_no >= 2

\* the draw commands the step at position i of the executed schedule issued
CommandsOf(i) == SelectSeq(draws, LAMBDA c : c.step = i)

\* C27: every execute() that returns runs exactly one post-process for each
\* Process step of the schedule, at that step's position among the Pass steps,
\* whether or not any submission was queued in the frame; a Pass step whose
\* pass name has no queue entry is skipped without any draw.
C27_OnePostProcessPerProcessStep ==
    executed.returned =>
        /\ \A i \in 1..Len(executed.schedule.steps) :
              LET step == executed.schedule.steps[i]
              IN IF step.kind = "Process"
                 THEN /\ Len(CommandsOf(i)) = 1
                      /\ CommandsOf(i)[1].kind = "process"
                 ELSE /\ \A k \in 1..Len(CommandsOf(i)) : CommandsOf(i)[k].kind # "process"
                      /\ (CallsFor(step.render_pass) = <<>>
                          \/ i # First(PassStepsOf(executed.schedule, step.render_pass)))
                            => CommandsOf(i) = <<>>
        /\ \A c \in 1..Len(draws), d \in 1..Len(draws) :
              c < d => draws[c].step <= draws[d].step

\* execute() returned from a frame in which nothing was queued, having run
\* the post-process of a Process step placed after a Pass step
C27_Witness ==
    /\ executed.returned
    /\ executed.calls = <<>>
    /\ Len(executed.schedule.steps) = 2
    /\ executed.schedule.steps[1].kind = "Pass"
    /\ executed.schedule.steps[2].kind = "Process"
    /\ Len(draws) = 1
    /\ draws[1].kind = "process"
    /\ draws[1].step = 2

\* the handles the shader table has returned so far, live or stale
CreatedShaderKeys == {ShaderKeyAt(n) : n \in 1..shaders.created}

\* every Process step of the schedule holds a handle the shader table returned
ProcessShadersCreated ==
    \A i \in 1..Len(schedule.steps) :
        schedule.steps[i].kind = "Process" =>
            schedule.steps[i].shader \in CreatedShaderKeys

\* a call of execute() completes whether the handles of its Process steps are
\* still in the shader table or not, and never misses a subject target
ExecuteCompletes ==
    ExecuteStep =>
        /\ status' # PanicIndexTarget
        /\ ProcessShadersCreated =>
              /\ status' = Running
              /\ executed'.returned
              /\ queues' = EmptyMap
              /\ depth_counter' = 0

\* C28: execute() runs to completion (every later step is processed, the
\* queue map is cleared, the depth counter is reset to 0) also when the shader
\* handle of a Process step is no longer present in the shader table, and for
\* every schedule built through the builder the Process step's subject-target
\* lookup finds its name. (Indexing the shader table with a stale handle
\* panics: the formula is violated.)
C28_ExecuteCompletesWithStaleShader == [][ExecuteCompletes]_vars

\* a step of the state machine that is a call of create_dynamic_render_target
DynamicStep ==
    /\ Len(asset_calls') = Len(asset_calls) + 1
    /\ asset_calls'[Len(asset_calls')].op = "create_dynamic_render_target"

\* create_dynamic_render_target leaves the renderer's schedule, the schedule
\* under construction, the queue map and the depth counter as they were
DynamicTargetLeavesRenderer ==
    DynamicStep =>
        /\ schedule' = schedule
        /\ builder' = builder
        /\ queues' = queues
        /\ depth_counter' = depth_counter

\* add_pass and add_process fail on a target name that only the name cache of
\* the AssetManager holds
CachedNameNotRegistered ==
    /\ (/\ builder_call.op = "add_pass"
        /\ ~builder_call.registered[1]) => (status = PanicTarget /\ ~builder.live)
    /\ (/\ builder_call.op = "add_process"
        /\ builder_call.registered[1]
        /\ ~builder_call.registered[2]) => (status = PanicProcessTarget /\ ~builder.live)
    /\ \A sched \in {builder, schedule} :
          \A i \in 1..Len(sched.steps) : sched.steps[i].target \in DOMAIN sched.render_targets

\* C29: create_dynamic_render_target leaves the renderer's schedule (steps,
\* pass names, target mapping), queue map and depth counter unchanged: the new
\* name is registered only in the AssetManager's name cache, so add_pass or
\* add_process naming it still fails until with_render_target registers it in
\* the schedule.
C29_DynamicTargetNotInSchedule ==
    []CachedNameNotRegistered /\ [][DynamicTargetLeavesRenderer]_vars

\* add_pass has panicked on the name of a dynamic render target that was
\* created but not registered with with_render_target
C29_Witness ==
    /\ status = PanicTarget
    /\ builder_call.op = "add_pass"
    /\ builder_call.args[1] \in DOMAIN dynamic_render_targets
    /\ ~builder_call.registered[1]
    /\ builder_call.args[1] \notin DOMAIN schedule.render_targets

\* C30: in every reachable state of any interleaving of
\* create_dynamic_render_target and load_texture calls, every texture key
\* stored in the dynamic_render_targets cache or in texture_assets refers to a
\* texture present in the textures table: the texture is inserted before its
\* name is published, and nothing removes textures.
C30_PublishedKeysHaveTextures ==
    /\ \A name \in DOMAIN dynamic_render_targets :
          /\ dynamic_render_targets[name][1] = "Texture"
          /\ dynamic_render_targets[name][2] \in DOMAIN textures.items
    /\ \A path \in DOMAIN texture_assets :
          texture_assets[path] \in DOMAIN textures.items
    /\ Cardinality(DOMAIN textures.items) = textures.created

\* one thread has published its target, a texture file is loaded, and the other
\* thread has inserted the texture of another target whose name it has not
\* published yet
C30_Witness ==
    /\ DOMAIN texture_assets # {}
    /\ \E t \in Threads, u \in Threads :
          /\ callers[t].pc = "done"
          /\ callers[t].name \in DOMAIN dynamic_render_targets
          /\ callers[u].pc = "insert_name"
          /\ callers[u].name \notin DOMAIN dynamic_render_targets
          /\ callers[u].texture_key \in DOMAIN textures.items

\* a step of the state machine that is a call of load_texture
LoadStep ==
    /\ Len(asset_calls') = Len(asset_calls) + 1
    /\ asset_calls'[Len(asset_calls')].op = "load_texture"

\* what a call of load_texture does to the tables: nothing when the path is in
\* texture_assets, whatever the file, and nothing when the file cannot be read
\* or decoded; otherwise one texture under the path
LoadTextureOnce ==
    LoadStep =>
        LET call == asset_calls'[Len(asset_calls')]
        IN IF call.name \in DOMAIN texture_assets
           THEN /\ call.result = <<"Ok", call.name>>
                /\ textures' = textures
                /\ texture_assets' = texture_assets
           ELSE IF call.outcome # "ok"
           THEN /\ call.result = <<"Err", call.outcome>>
                /\ textures' = textures
                /\ texture_assets' = texture_assets
           ELSE /\ call.result = <<"Ok", call.name>>
                /\ textures'.created = textures.created + 1
                /\ DOMAIN texture_assets' = DOMAIN texture_assets \cup {call.name}
                /\ texture_assets'[call.name] \in DOMAIN textures'.items
                /\ texture_assets'[call.name] \notin DOMAIN textures.items

\* C31: load_texture is idempotent by path: a second call with a path already
\* in texture_assets returns the same name without reading the file or
\* inserting a texture, and a call that fails to read or decode the file
\* leaves texture_assets and textures unchanged.
C31_LoadTextureIdempotentByPath == [][LoadTextureOnce]_vars

\* a load that failed, a load of the same path that succeeded, and a third
\* call that returned the name although the file could no longer be read
C31_Witness ==
    /\ Len(asset_calls) = 3
    /\ \A i \in 1..3 : asset_calls[i].op = "load_texture"
                       /\ asset_calls[i].name = asset_calls[1].name
    /\ asset_calls[1].result[1] = "Err"
    /\ asset_calls[2].result[1] = "Ok"
    /\ asset_calls[2].allocated = 1
    /\ asset_calls[3].outcome = "read_error"
    /\ asset_calls[3].result = asset_calls[2].result
    /\ asset_calls[3].allocated = 0
    /\ textures.created = 1

\* the calls the latest SQ::render made on a window
CallsOn(window_id) == SelectSeq(frame.render_calls, LAMBDA c : c.window = window_id)

\* the latest SQ::render returned the error e right after its last call on
\* the window
ReturnedFrom(window_id, e) ==
    /\ frame.render_result = Err(e)
    /\ frame.render_calls[Len(frame.render_calls)].window = window_id

\* what the latest SQ::render did with one window
RetriedOnce(window_id) ==
    LET calls == CallsOn(window_id)
    IN calls # <<>> =>
          /\ calls[1].op = "render"
          /\ IF calls[1].arg \in Retried
             THEN /\ Len(calls) = 3
                  /\ calls[2].op = "resize"
                  /\ calls[3].op = "render"
                  /\ calls[3].arg # "Ok" => ReturnedFrom(window_id, calls[3].arg)
                  /\ (frame.pc = "sleep" /\ calls[2].arg[1] > 0 /\ calls[2].arg[2] > 0)
                        => sq.windows[window_id].surface = calls[2].arg
             ELSE /\ Len(calls) = 1
                  /\ calls[1].arg # "Ok" => ReturnedFrom(window_id, calls[1].arg)

\* C32: in a frame, SQ::render answers a first attempt that fails with Lost or
\* Outdated by one resize and one second attempt on that window, and
\* returns the error of a failed second attempt, or any other error of a
\* first attempt, without another call.
C32_RenderRetriesOnce == \A window_id \in WindowIds : RetriedOnce(window_id)

\* a frame of two windows in which the first attempt on a window was Lost and
\* its second attempt Outdated: render() returned that error after three calls
C32_Witness ==
    /\ DOMAIN sq.windows = WindowIds
    /\ Len(frame.render_calls) = 3
    /\ frame.render_calls[1].arg = "Lost"
    /\ frame.render_calls[2] = RenderCall(frame.render_calls[1].window, "resize", <<400, 300>>)
    /\ frame.render_calls[3].arg = "Outdated"
    /\ frame.render_result = Err("Outdated")

\* running is false exactly when a Quit has been processed, and no iteration
\* has begun after the one that processed it
QuitEndsIterations ==
    /\ sq.running <=> frame.quit_frame = 0
    /\ frame.quit_frame # 0 => frame.frames = frame.quit_frame

\* the steps of run(): an iteration goes from the check through update,
\* render and sleep back to the check whatever render returned, running
\* changes in update only, and run() leaves the loop only at the check
LoopStep ==
    /\ (frame.pc = "check" /\ frame'.pc # "check") =>
          frame'.pc = (IF sq.running THEN "update" ELSE "exited")
    /\ (frame.pc = "update" /\ frame'.pc # "update") => frame'.pc = "render"
    /\ (frame.pc = "render" /\ frame'.pc # "render") =>
          frame'.pc = "sleep" /\ sq'.running = sq.running
    /\ (frame.pc = "sleep" /\ frame'.pc # "sleep") => frame'.pc = "check"
    /\ frame.pc = "exited" => frame'.pc = "exited"
    /\ frame'.frames # frame.frames =>
          frame.pc = "check" /\ frame'.frames = frame.frames + 1
    /\ sq'.running # sq.running => frame.pc = "update"

\* an iteration whose update processed no Quit is followed by another one
KeepsIterating ==
    \A n \in 1..(MaxFrames - 1) :
        (frame.frames = n /\ frame.pc = "render" /\ frame.quit_frame = 0)
            ~> (frame.frames = n + 1)

\* C33: after handle_events has processed a Quit, run() finishes the
\* iteration (render, sleep), begins no other iteration and exits at the
\* check; without a Quit it begins the next iteration, whatever render
\* returned.
C33_QuitEndsRunAfterIteration ==
    /\ []QuitEndsIterations
    /\ [][LoopStep]_vars
    /\ (frame.quit_frame # 0) ~> (frame.pc = "exited")
    /\ KeepsIterating

\* run() has exited after a second iteration that processed a Quit, the first
\* iteration's render having returned an error
C33_Witness ==
    /\ frame.pc = "exited"
    /\ frame.frames = 2
    /\ frame.quit_frame = 2
    /\ 1 \in frame.error_frames

\* the InputManager of a window
InputsOf(window_id) == sq.windows[window_id].inputs

\* C34: after any sequence of input events, the left mouse button is Down
\* exactly when the physical left button is down or the pen is down.
C34_LeftDownIffButtonOrPen ==
    \A window_id \in DOMAIN sq.windows :
        is_down(InputsOf(window_id), MouseLeft)
            <=> (\/ InputsOf(window_id).physical_left_button_down
                 \/ InputsOf(window_id).pen.is_down)

\* the step in which the InputManager of a window handles one event
InputStep(window_id) ==
    /\ window_id \in DOMAIN input_events
    /\ Len(input_events'[window_id]) = Len(input_events[window_id]) + 1
    /\ input_events'[window_id][Len(input_events'[window_id])] # ResetCall

\* the entry of a button is Up
WasUp(im, button) ==
    button \in DOMAIN im.button_states /\ im.button_states[button].state = "Up"

\* what an event does to the state of a button: an event for the button
\* decides is_pressed and is_released by its direction and the state before
\* it, a repeated direction adds 1 to the frames and keeps the state, and any
\* other event leaves the button's entry alone
ButtonFollowsLatestEvent(window_id, button) ==
    LET before == InputsOf(window_id)
        after == sq'.windows[window_id].inputs
        event == input_events'[window_id][Len(input_events'[window_id])]
        m == MatchButton(before, event)
    IN IF m.matched /\ m.button = button
       THEN /\ is_pressed(after, button) <=> (m.is_pressed /\ ~is_down(before, button))
            /\ is_released(after, button) <=> (~m.is_pressed /\ ~WasUp(before, button))
            /\ is_down(after, button) <=> m.is_pressed
            /\ (m.is_pressed /\ is_down(before, button)) =>
                  after.button_states[button] =
                      Down(before.button_states[button].frames + 1)
            /\ (~m.is_pressed /\ WasUp(before, button)) =>
                  after.button_states[button] =
                      Up(before.button_states[button].frames + 1)
       ELSE /\ (button \in DOMAIN after.button_states)
                  <=> (button \in DOMAIN before.button_states)
            /\ button \in DOMAIN before.button_states =>
                  after.button_states[button] = before.button_states[button]

ButtonEventStep ==
    \A window_id \in WindowIds : \A button \in Buttons \ {MouseLeft} :
        InputStep(window_id) => ButtonFollowsLatestEvent(window_id, button)

LastReset(calls) ==
    IF \E i \in 1..Len(calls) : calls[i] = ResetCall
    THEN CHOOSE i \in 1..Len(calls) :
            /\ calls[i] = ResetCall
            /\ \A j \in (i + 1)..Len(calls) : calls[j] # ResetCall
    ELSE 0

\* the positions of the MouseMotion events an InputManager has received since
\* construction or its latest reset_states(), oldest first
MotionsSinceReset(window_id) ==
    LET calls == input_events[window_id]
        since == SubSeq(calls, LastReset(calls) + 1, Len(calls))
        motions == SelectSeq(since, LAMBDA c : c.type = "MouseMotion")
    IN [i \in 1..Len(motions) |-> motions[i].arg]

\* mouse_pos_history is the latest positions, newest first, at most
\* MousePosHistoryLen of them
HistoryIsLatestMotions(window_id) ==
    LET history == InputsOf(window_id).mouse_pos_history
        motions == MotionsSinceReset(window_id)
    IN /\ Len(history) <= MousePosHistoryLen
       /\ Len(history) = (IF Len(motions) < MousePosHistoryLen
                          THEN Len(motions) ELSE MousePosHistoryLen)
       /\ \A i \in 1..Len(history) : history[i] = motions[Len(motions) - i + 1]

\* C36: mouse_pos_history holds at most 10 positions, newest first, and they
\* are the most recent MouseMotion positions since construction or the
\* latest reset_states().
C36_MouseHistoryLatestTen ==
    \A window_id \in DOMAIN sq.windows : HistoryIsLatestMotions(window_id)

\* a motion, a reset_states() and eleven motions: the history is full, and the
\* oldest motion since the reset, at another position than the next, is gone
C36_Witness ==
    /\ 1 \in DOMAIN sq.windows
    /\ Len(input_events[1]) = 13
    /\ input_events[1][2] = ResetCall
    /\ Len(MotionsSinceReset(1)) = 11
    /\ MotionsSinceReset(1)[1] # MotionsSinceReset(1)[2]
    /\ Len(InputsOf(1).mouse_pos_history) = MousePosHistoryLen
    /\ InputsOf(1).mouse_pos_history[MousePosHistoryLen] = MotionsSinceReset(1)[2]

====
